---- MODULE Spec2Model ----
(***************************************************************************)
(* Dictionary converters of dict-dictpress-conversions: Bailey 1849        *)
(* (plain text), Gundert 1872 (TEI markup), STV (XDXF markup).             *)
(*                                                                         *)
(* A text is a sequence of characters; a character is a one-character      *)
(* string.  A character outside ASCII is written by its code point:        *)
(* "u0D15" is MALAYALAM LETTER KA, "u0D02" is MALAYALAM SIGN ANUSVARA,     *)
(* "u0161" is LATIN SMALL LETTER S WITH CARON.  Positions are 1-based and  *)
(* 0 stands for "not found" (Python: 0-based and -1).                      *)
(***************************************************************************)
EXTENDS Integers, Sequences, FiniteSets, TLC

VARIABLES
    op,                         \* the function applied last (pure-function specifications)
    arg,                        \* its input, as the parts the input was built from
    res,                        \* its result
    input_file,                 \* convert_bailey_to_dictpress: the lines of the input file
    line_number,                \* ... the number of the line read last (0 before the first)
    entries,                    \* ... entries
    skipped_lines,              \* ... skipped_lines
    entries_with_unknown_pos,   \* ... entries_with_unknown_pos
    output_file,                \* the rows written to the output file, in order
    surface_number,             \* GundertParser.parse: the number of the surface read last
    file_number,                \* STVParser.parse_files: the number of the file read last
    raised                      \* the exception that left the running call, "none" if none

vars == <<op, arg, res, input_file, line_number, entries, skipped_lines,
          entries_with_unknown_pos, output_file, surface_number, file_number,
          raised>>

fnVars == <<op, arg, res>>

\* What the passes read and collect, without the output file.
readVars == <<input_file, line_number, entries, skipped_lines, entries_with_unknown_pos,
              surface_number, file_number, raised>>

passVars == <<readVars, output_file>>

-----------------------------------------------------------------------------
(* Characters and the str methods the converters use.                      *)

Upper ==
    {"A", "B", "C", "D", "E", "F", "G", "H", "I", "J", "K", "L", "M",
     "N", "O", "P", "Q", "R", "S", "T", "U", "V", "W", "X", "Y", "Z"}

AsciiLower ==
    {"a", "b", "c", "d", "e", "f", "g", "h", "i", "j", "k", "l", "m",
     "n", "o", "p", "q", "r", "s", "t", "u", "v", "w", "x", "y", "z"}

\* Letters with diacritics that the romanization class of the Gundert head
\* pattern lists (a sample): s with acute, a with macron, t with dot below.
RomanDiacritics ==
    {"u015B", "u0101", "u1E6D"}

\* Lower-case letters the class does not list: s with caron.
OtherLower ==
    {"u0161"}

Lower ==
    AsciiLower \cup RomanDiacritics \cup OtherLower

AsciiLetter ==
    Upper \cup AsciiLower

Digit ==
    {"0", "1", "2", "3", "4", "5", "6", "7", "8", "9"}

\* What str.strip() trims and what \s matches.
Whitespace ==
    {" ", "\t", "\n"}

\* Characters of the range [\u0D00-\u0D7F] (a sample of the block): the signs
\* below U+0D05 and the letters and signs from U+0D05 on.
MalayalamLow ==
    {"u0D02", "u0D03"}

MalayalamHigh ==
    {"u0D05", "u0D15", "u0D37", "u0D4D"}

MalayalamBlock ==
    MalayalamLow \cup MalayalamHigh

Min(S) ==
    CHOOSE x \in S : \A y \in S : x <= y

Max(S) ==
    CHOOSE x \in S : \A y \in S : x >= y

\* All sequences over S of length lo..hi.
SeqsOf(S, lo, hi) ==
    UNION {[1..n -> S] : n \in lo..hi}

strip(s) ==
    LET keep == {i \in 1..Len(s) : s[i] \notin Whitespace}
    IN  IF keep = {} THEN <<>> ELSE SubSeq(s, Min(keep), Max(keep))

isupper(s) ==
    /\ \E i \in 1..Len(s) : s[i] \in Upper
    /\ \A i \in 1..Len(s) : s[i] \notin Lower

\* A variant of find that takes the last occurrence (str.rfind): the
\* headword would then run up to the last comma of the line.
rfind(s, c) ==
    LET at == {i \in 1..Len(s) : s[i] = c}
    IN  IF at = {} THEN 0 ELSE Max(at)

find(s, c) ==
    LET at == {i \in 1..Len(s) : s[i] = c}
    IN  IF at = {} THEN 0 ELSE Min(at)

endswith(s, c) ==
    Len(s) > 0 /\ s[Len(s)] = c

startswith(s, c) ==
    Len(s) > 0 /\ s[1] = c

\* t occurs in s at position i.
OccursAt(t, s, i) ==
    /\ i + Len(t) - 1 <= Len(s)
    /\ \A k \in 1..Len(t) : s[i + k - 1] = t[k]

\* Python's `t in s`.
IsSubstring(t, s) ==
    \E i \in 1..(Len(s) + 1) : OccursAt(t, s, i)

-----------------------------------------------------------------------------
(* bailey_to_dictpress.py                                                  *)

POS_MAPPING ==
       (<<"a">> :> <<"a", "d", "j", "e", "c", "t", "i", "v", "e">>)
    @@ (<<"a", "d">> :> <<"a", "d", "v", "e", "r", "b">>)
    @@ (<<"a", "d", "v">> :> <<"a", "d", "v", "e", "r", "b">>)
    @@ (<<"a", "r", "t">> :> <<"a", "r", "t", "i", "c", "l", "e">>)
    @@ (<<"c", "o", "n", "j">> :> <<"c", "o", "n", "j", "u", "n", "c", "t", "i", "o", "n">>)
    @@ (<<"s">> :> <<"n", "o", "u", "n">>)
    @@ (<<"v", ".", " ", "a">> :> <<"v", "e", "r", "b", "-", "t", "r", "a", "n", "s", "i", "t", "i", "v", "e">>)
    @@ (<<"v", ".", " ", "n">> :> <<"v", "e", "r", "b", "-", "i", "n", "t", "r", "a", "n", "s", "i", "t", "i", "v", "e">>)
    @@ (<<"v", ".", " ", "a", ".", " ", "&", " ", "n">> :> <<"v", "e", "r", "b">>)
    @@ (<<"v", ".", " ", "n", ".", " ", "&", " ", "a">> :> <<"v", "e", "r", "b">>)
    @@ (<<"p", "r", "e", "p">> :> <<"p", "r", "e", "p", "o", "s", "i", "t", "i", "o", "n">>)
    @@ (<<"p", "r", "o", "n">> :> <<"p", "r", "o", "n", "o", "u", "n">>)
    @@ (<<"p", "r", "o", "n", ".", " ", "p", "o", "s", "s">> :> <<"p", "r", "o", "n", "o", "u", "n", "-", "p", "o", "s", "s", "e", "s", "s", "i", "v", "e">>)
    @@ (<<"r", "e", "c", "i", "p", ".", " ", "p", "r", "o", "n">> :> <<"p", "r", "o", "n", "o", "u", "n", "-", "r", "e", "c", "i", "p", "r", "o", "c", "a", "l">>)
    @@ (<<"i", "n", "t", "e", "r", "j">> :> <<"i", "n", "t", "e", "r", "j", "e", "c", "t", "i", "o", "n">>)
    @@ (<<"p", "a", "r", "t">> :> <<"p", "a", "r", "t", "i", "c", "i", "p", "l", "e">>)
    @@ (<<"p", "a", "r", "t", ".", " ", "a">> :> <<"p", "a", "r", "t", "i", "c", "i", "p", "l", "e">>)
    @@ (<<"p", "a", "r", "t", ".", " ", "p", "a", "s", "s">> :> <<"p", "a", "r", "t", "i", "c", "i", "p", "l", "e", "-", "p", "a", "s", "s", "i", "v", "e">>)
    @@ (<<"p", "a", "r", "t", ".", " ", "p", "a", "s", "s", ".", " ", "&", " ", "a">> :> <<"p", "a", "r", "t", "i", "c", "i", "p", "l", "e", "-", "p", "a", "s", "s", "i", "v", "e">>)
    @@ (<<"p", "r", "e", "t">> :> <<"p", "a", "s", "t", "-", "t", "e", "n", "s", "e">>)
    @@ (<<"p", "r", "e", "t", ".", " ", "&", " ", "p", "a", "r", "t">> :> <<"p", "a", "s", "t", "-", "p", "a", "r", "t", "i", "c", "i", "p", "l", "e">>)
    @@ (<<"p", "r", "e", "t", ".", " ", "&", " ", "p", "a", "r", "t", ".", " ", "p", "a", "s", "s">> :> <<"p", "a", "s", "t", "-", "p", "a", "r", "t", "i", "c", "i", "p", "l", "e", "-", "p", "a", "s", "s", "i", "v", "e">>)
    @@ (<<"v", ".", " ", "d", "e", "f", "e", "c", "t">> :> <<"v", "e", "r", "b", "-", "d", "e", "f", "e", "c", "t", "i", "v", "e">>)
    @@ (<<"v", "e", "r", "b", " ", "i", "m", "p", "e", "r">> :> <<"v", "e", "r", "b", "-", "i", "m", "p", "e", "r", "f", "e", "c", "t">>)
    @@ (<<"p", "l">> :> <<"p", "l", "u", "r", "a", "l">>)
    @@ (<<"p", "l", "u">> :> <<"p", "l", "u", "r", "a", "l">>)
    @@ (<<"f", "e", "m">> :> <<"f", "e", "m", "i", "n", "i", "n", "e">>)

None ==
    [kind |-> "None"]

\* A variant of pos_normalized that falls back to the empty string.
pos_normalized_or_empty(pos) ==
    IF pos \in DOMAIN POS_MAPPING THEN POS_MAPPING[pos] ELSE <<>>

\* POS_MAPPING.get(self.pos, self.pos)
pos_normalized(pos) ==
    IF pos \in DOMAIN POS_MAPPING THEN POS_MAPPING[pos] ELSE pos

BaileyEntry(headword, pos, definitions, ln) ==
    [kind           |-> "BaileyEntry",
     headword       |-> strip(headword),
     pos            |-> strip(pos),
     definitions    |-> strip(definitions),
     line_number    |-> ln,
     pos_normalized |-> pos_normalized(strip(pos))]

\* The line is blank or a section header (all its cased characters upper-case).
is_blank_or_header(line) ==
    line = <<>> \/ isupper(line)

\* re.search(r'\.\s+[\u0D00-\u0D7F]', rest).start(): the leftmost period that is
\* followed by one or more whitespace characters and then a Malayalam character.
pos_end_matches(rest) ==
    {i \in 1..Len(rest) :
        /\ rest[i] = "."
        /\ \E j \in (i + 2)..Len(rest) :
              /\ rest[j] \in MalayalamBlock
              /\ \A k \in (i + 1)..(j - 1) : rest[k] \in Whitespace}

pos_end_match(rest) ==
    IF pos_end_matches(rest) = {} THEN 0 ELSE Min(pos_end_matches(rest))

\* A variant of pos_of that keeps the period ending the marker.
pos_with_period(rest, pos_end) ==
    strip(SubSeq(rest, 1, pos_end))

\* pos = rest[:pos_end].strip()
pos_of(rest, pos_end) ==
    strip(SubSeq(rest, 1, pos_end - 1))

\* definitions = rest[pos_end + 1:].strip(), less a trailing period
definitions_of(rest, pos_end) ==
    LET d == strip(SubSeq(rest, pos_end + 1, Len(rest)))
    IN  IF endswith(d, ".") THEN strip(SubSeq(d, 1, Len(d) - 1)) ELSE d

parse_entry_line(raw, ln) ==
    LET line == strip(raw)
    IN  IF is_blank_or_header(line) THEN None
        ELSE LET comma_pos == find(line, ",")
             IN  IF comma_pos = 0 THEN None
                 ELSE LET headword == strip(SubSeq(line, 1, comma_pos - 1))
                          rest     == strip(SubSeq(line, comma_pos + 1, Len(line)))
                          pos_end  == pos_end_match(rest)
                      IN  IF pos_end = 0 THEN None
                          ELSE BaileyEntry(headword, pos_of(rest, pos_end),
                                           definitions_of(rest, pos_end), ln)


\* BaileyEntry.to_dictpress_row: the eleven cells of the row of an entry.
to_dictpress_row(entry) ==
    << entry.headword,
       <<>>,
       entry.definitions,
       <<"B", "a", "i", "l", "e", "y", "'", "s", " ", "E", "n", "g", "l", "i", "s", "h", "-", "M", "a", "l", "a", "y">>
           \o <<"a", "l", "a", "m", " ", "D", "i", "c", "t", "i", "o", "n", "a", "r", "y", " ", "(", "1", "8", "4", "9", ")">>,
       <<>>,
       <<>>,
       <<>>,
       <<>>,
       entry.pos_normalized,
       <<"E", "n", "g", "l", "i", "s", "h">>,
       <<"M", "a", "l", "a", "y", "a", "l", "a", "m">> >>

\* The header row of the output file.
csv_header ==
    << <<"h", "e", "a", "d", "w", "o", "r", "d">>,
       <<"a", "l", "t", "e", "r", "n", "a", "t", "e", "_", "h", "e", "a", "d", "w", "o", "r", "d", "s">>,
       <<"d", "e", "f", "i", "n", "i", "t", "i", "o", "n">>,
       <<"d", "i", "c", "t", "i", "o", "n", "a", "r", "y", "_", "n", "a", "m", "e">>,
       <<"t", "s", "v", "e", "c", "t", "o", "r", "_", "l", "a", "n", "g", "u", "a", "g", "e">>,
       <<"t", "s", "v", "e", "c", "t", "o", "r", "_", "t", "o", "k", "e", "n", "s">>,
       <<"l", "i", "n", "k">>,
       <<"n", "o", "t", "e", "s">>,
       <<"p", "a", "r", "t", "_", "o", "f", "_", "s", "p", "e", "e", "c", "h">>,
       <<"s", "o", "u", "r", "c", "e", "_", "l", "a", "n", "g", "u", "a", "g", "e">>,
       <<"t", "a", "r", "g", "e", "t", "_", "l", "a", "n", "g", "u", "a", "g", "e">> >>

\* A variant of is_skipped_non_entry that also records upper-case headers.
is_skipped_any_nonblank(raw) ==
    strip(raw) # <<>>

\* if line.strip() and not line.strip().isupper()
is_skipped_non_entry(raw) ==
    strip(raw) # <<>> /\ ~isupper(strip(raw))

\* A variant of has_unknown_pos without the test for an empty marker.
has_unknown_pos_or_empty(entry) ==
    entry.pos_normalized = entry.pos

\* if entry.pos and entry.pos_normalized == entry.pos
has_unknown_pos(entry) ==
    entry.pos # <<>> /\ entry.pos_normalized = entry.pos

-----------------------------------------------------------------------------
(* Inputs of parse_entry_line: lines `Head, pos. target.` built from a     *)
(* headword without comma, a grammar marker and a text that begins with a  *)
(* Malayalam character, each of them trimmed.                              *)

MaxHeadLen == 3

MaxPosLen == 2

MaxDefLen == 2

HeadChars ==
    {"A", "b", " "}

PosChars ==
    {"S", "a", ".", " "}

DefChars ==
    {"u0D15", ",", ".", " "}

Trimmed(S) ==
    {s \in S : strip(s) = s}

Heads ==
    Trimmed(SeqsOf(HeadChars, 1, MaxHeadLen))

\* Every key of POS_MAPPING, every short marker over PosChars, and one marker
\* that holds a period-space-Malayalam boundary itself.
PosMarkers ==
    DOMAIN POS_MAPPING
        \cup Trimmed(SeqsOf(PosChars, 0, MaxPosLen))
        \cup {<<"a", ".", " ", "u0D15">>}

Targets ==
    {<<"u0D15">> \o t : t \in Trimmed(SeqsOf(DefChars, 0, MaxDefLen - 1))}

EntryLine(head, pos, target) ==
    head \o <<",", " ">> \o pos \o <<".", " ">> \o target \o <<".">>

HasMalayalam(s) ==
    \E i \in 1..Len(s) : s[i] \in MalayalamBlock

NoValue ==
    [kind |-> "NoValue"]

FnInit ==
    /\ op = "none"
    /\ arg = NoValue
    /\ res = NoValue

PassIdle ==
    /\ input_file = <<>>
    /\ line_number = 0
    /\ entries = <<>>
    /\ skipped_lines = <<>>
    /\ entries_with_unknown_pos = <<>>
    /\ output_file = <<>>
    /\ surface_number = 0
    /\ file_number = 0
    /\ raised = "none"

LineInit ==
    /\ op = "none"
    /\ res = NoValue
    /\ arg \in {[head |-> head, pos |-> pos, target |-> target,
                 line |-> EntryLine(head, pos, target)] :
                    head \in Heads, pos \in PosMarkers, target \in Targets}
    /\ PassIdle

ParseEntryLine ==
    /\ op = "none"
    /\ op' = "parse_entry_line"
    /\ res' = parse_entry_line(arg.line, 1)
    /\ UNCHANGED <<arg, passVars>>

LineNext ==
    ParseEntryLine

SpecLine ==
    LineInit /\ [][LineNext]_vars

-----------------------------------------------------------------------------
(* convert_bailey_to_dictpress: one pass over the lines of the input file. *)

MaxLines == 3

NL ==
    <<"\n">>

\* blank, section header, no comma, no period-Malayalam boundary, mapped
\* marker, unmapped marker, upper-case line of entry form, empty marker,
\* nothing before the comma.
FileLines ==
    { NL,
      <<" ", " ">> \o NL,
      <<"A", "B", "D">> \o NL,
      <<"A", "b", " ", "b">> \o NL,
      <<"A", "b", ",", " ", "s">> \o NL,
      EntryLine(<<"A", "b">>, <<"s">>, <<"u0D15">>) \o NL,
      EntryLine(<<"A", "b">>, <<"v", ".", " ", "a">>, <<"u0D15", ",", " ", "u0D15">>) \o NL,
      EntryLine(<<"A", "b">>, <<"n">>, <<"u0D15">>) \o NL,
      EntryLine(<<"A">>, <<"S">>, <<"u0D15">>) \o NL,
      EntryLine(<<"b">>, <<>>, <<"u0D15">>) \o NL,
      <<" ", ",", " ", "s", ".", " ", "u0D15", ".">> \o NL }

PassInit ==
    /\ FnInit
    /\ input_file \in SeqsOf(FileLines, 0, MaxLines)
    /\ line_number = 0
    /\ entries = <<>>
    /\ skipped_lines = <<>>
    /\ entries_with_unknown_pos = <<>>
    /\ output_file = <<>>
    /\ surface_number = 0
    /\ file_number = 0
    /\ raised = "none"

\* One iteration of `for line_number, line in enumerate(f, start=1)`.
ReadLine ==
    /\ line_number < Len(input_file)
    /\ LET n     == line_number + 1
           line  == input_file[n]
           entry == parse_entry_line(line, n)
       IN  /\ line_number' = n
           /\ IF entry # None
              THEN /\ entries' = Append(entries, entry)
                   /\ entries_with_unknown_pos' =
                          IF has_unknown_pos(entry)
                          THEN Append(entries_with_unknown_pos,
                                      <<n, entry.headword, entry.pos>>)
                          ELSE entries_with_unknown_pos
                   /\ UNCHANGED skipped_lines
              ELSE /\ skipped_lines' =
                          IF is_skipped_non_entry(line)
                          THEN Append(skipped_lines, <<n, strip(line)>>)
                          ELSE skipped_lines
                   /\ UNCHANGED <<entries, entries_with_unknown_pos>>
    /\ UNCHANGED <<input_file, fnVars, output_file, surface_number, file_number,
                   raised>>

\* writer.writerow([...]) of the header, once the input file is read.
WriteHeader ==
    /\ line_number = Len(input_file)
    /\ output_file = <<>>
    /\ output_file' = <<csv_header>>
    /\ UNCHANGED <<fnVars, readVars>>

\* A variant of entry_to_write that goes through the entries backwards.
entry_to_write_reversed(written) ==
    entries[Len(entries) - written]

\* `for entry in entries`: the entry written after `written` rows of entries.
entry_to_write(written) ==
    entries[written + 1]

\* One iteration of `for entry in entries: writer.writerow(entry.to_dictpress_row())`.
WriteRow ==
    /\ output_file # <<>>
    /\ Len(output_file) - 1 < Len(entries)
    /\ output_file' = Append(output_file,
                             to_dictpress_row(entry_to_write(Len(output_file) - 1)))
    /\ UNCHANGED <<fnVars, readVars>>

Next ==
    \/ ReadLine
    \/ WriteHeader
    \/ WriteRow

Spec ==
    PassInit /\ [][Next]_vars

-----------------------------------------------------------------------------
(* gundert_to_dictpress.py: GundertParser.clean_text                       *)

\* The character at position i, "" past either end.
At(s, i) ==
    IF i \in 1..Len(s) THEN s[i] ELSE ""

\* \s* from position i: the first position at or after i that holds no whitespace.
SkipWs(s, i) ==
    Min({j \in i..(Len(s) + 1) : At(s, j) \notin Whitespace})

\* A greedy run of characters of class C from position i: the first position
\* at or after i that holds no character of C.
RunEnd(s, i, C) ==
    Min({j \in i..(Len(s) + 1) : At(s, j) \notin C})

\* The first position at or after i that holds c, 0 when there is none.
IndexFrom(s, c, i) ==
    LET at == {j \in i..Len(s) : s[j] = c}
    IN  IF at = {} THEN 0 ELSE Min(at)

\* The pattern <lb\s*/?\s*></?\s*lb\s*> at position i: the position after the
\* match, 0 when there is no match at i.
lb_pair_end(s, i) ==
    IF ~OccursAt(<<"<", "l", "b">>, s, i) THEN 0
    ELSE LET j1 == SkipWs(s, i + 3)
             j2 == IF At(s, j1) = "/" THEN j1 + 1 ELSE j1
             j3 == SkipWs(s, j2)
             j4 == IF At(s, j3 + 2) = "/" THEN j3 + 3 ELSE j3 + 2
             j5 == SkipWs(s, j4)
             j6 == SkipWs(s, j5 + 2)
         IN  IF /\ At(s, j3) = ">"
                /\ At(s, j3 + 1) = "<"
                /\ At(s, j5) = "l"
                /\ At(s, j5 + 1) = "b"
                /\ At(s, j6) = ">"
             THEN j6 + 1
             ELSE 0

\* The pattern <lb\s*/> at position i, likewise.
lb_self_end(s, i) ==
    IF ~OccursAt(<<"<", "l", "b">>, s, i) THEN 0
    ELSE LET j == SkipWs(s, i + 3)
         IN  IF At(s, j) = "/" /\ At(s, j + 1) = ">" THEN j + 2 ELSE 0

RECURSIVE SubPair(_, _, _)
\* re.sub of the first pattern from position i on, with replacement r.
SubPair(s, i, r) ==
    IF i > Len(s) THEN <<>>
    ELSE IF lb_pair_end(s, i) # 0 THEN r \o SubPair(s, lb_pair_end(s, i), r)
    ELSE <<s[i]>> \o SubPair(s, i + 1, r)

RECURSIVE SubSelf(_, _, _)
\* re.sub of the second pattern from position i on, with replacement r.
SubSelf(s, i, r) ==
    IF i > Len(s) THEN <<>>
    ELSE IF lb_self_end(s, i) # 0 THEN r \o SubSelf(s, lb_self_end(s, i), r)
    ELSE <<s[i]>> \o SubSelf(s, i + 1, r)

\* A variant of sub_lb_pair that leaves a space where the marker was.
sub_lb_pair_space(text) ==
    SubPair(text, 1, <<" ">>)

\* text = re.sub(r'<lb\s*/?\s*></?\s*lb\s*>', '', text)
sub_lb_pair(text) ==
    SubPair(text, 1, <<>>)

\* text = re.sub(r'<lb\s*/>', '', text)
sub_lb_self(text) ==
    SubSelf(text, 1, <<>>)

\* What html.parser does with a tag that the end of the input leaves
\* unclosed depends on the Python build: up to 3.13.5 the text is kept
\* ("text"), from 3.13.6 on the tag is ignored ("drop").
UnclosedTagAtEOF ==
    {"text", "drop"}

RECURSIVE GetText(_, _, _)
\* BeautifulSoup(text, 'html.parser').get_text() from position i on: a tag
\* (`<` and a letter, or `</`, up to the next `>`) gives nothing, the
\* entities &lt; &gt; &amp; give their character, everything else is kept.
GetText(s, i, eof) ==
    IF i > Len(s) THEN <<>>
    ELSE IF s[i] = "<" /\ (At(s, i + 1) \in AsciiLetter \/ At(s, i + 1) = "/")
    THEN LET close == IndexFrom(s, ">", i + 1)
             next  == IndexFrom(s, "<", i + 1)
             k     == IF next = 0 THEN i + 1 ELSE next
         IN  IF close # 0 THEN GetText(s, close + 1, eof)
             ELSE IF eof = "drop" THEN <<>>
             ELSE SubSeq(s, i, k - 1) \o GetText(s, k, eof)
    ELSE IF OccursAt(<<"&", "l", "t", ";">>, s, i)
    THEN <<"<">> \o GetText(s, i + 4, eof)
    ELSE IF OccursAt(<<"&", "g", "t", ";">>, s, i)
    THEN <<">">> \o GetText(s, i + 4, eof)
    ELSE IF OccursAt(<<"&", "a", "m", "p", ";">>, s, i)
    THEN <<"&">> \o GetText(s, i + 5, eof)
    ELSE <<s[i]>> \o GetText(s, i + 1, eof)

get_text(text, eof) ==
    GetText(text, 1, eof)

RECURSIVE CollapseWs(_, _)
\* re.sub(r'\s+', ' ', text) from position i on.
CollapseWs(s, i) ==
    IF i > Len(s) THEN <<>>
    ELSE IF s[i] \in Whitespace THEN <<" ">> \o CollapseWs(s, SkipWs(s, i))
    ELSE <<s[i]>> \o CollapseWs(s, i + 1)

normalize_whitespace(text) ==
    CollapseWs(text, 1)

\* clean_text(element), element given as str(element).
clean_text(element, eof) ==
    strip(normalize_whitespace(get_text(sub_lb_self(sub_lb_pair(element)), eof)))

-----------------------------------------------------------------------------
(* gundert_to_dictpress.py: the entry parser of GundertParser              *)

etymology_map ==
       (<<"S", ".">> :> <<"s", "a", "n", "s", "k", "r", "i", "t">>)
    @@ (<<"T", ".">> :> <<"t", "a", "m", "i", "l">>)
    @@ (<<"M", ".">> :> <<"m", "a", "l", "a", "y", "a", "l", "a", "m">>)
    @@ (<<"C", ".">> :> <<"c", "a", "n", "a", "r", "e", "s", "e">>)
    @@ (<<"T", "e", ".">> :> <<"t", "e", "l", "u", "g", "u">>)
    @@ (<<"T", "u", ".">> :> <<"t", "u", "l", "u">>)
    @@ (<<"S", "o", ".">> :> <<"s", "o", "u", "t", "h", "e", "r", "n">>)
    @@ (<<"N", "o", ".">> :> <<"n", "o", "r", "t", "h", "e", "r", "n">>)
    @@ (<<"V", "1", ".">> :> <<"v", "e", "r", "a", "p", "o", "l", "i", "1">>)
    @@ (<<"V", "2", ".">> :> <<"v", "e", "r", "a", "p", "o", "l", "i", "2">>)
    @@ (<<"T", "R", ".">> :> <<"t", "e", "l", "l", "i", "c", "h", "e", "r", "r", "y">>)
    @@ (<<"P", ".">> :> <<"p", "e", "r", "s", "i", "a", "n">>)
    @@ (<<"A", "r", ".">> :> <<"a", "r", "a", "b", "i", "c">>)
    @@ (<<"P", "o", "r", "t", ".">> :> <<"p", "o", "r", "t", "u", "g", "u", "e", "s", "e">>)
    @@ (<<"E", ".">> :> <<"e", "n", "g", "l", "i", "s", "h">>)
    @@ (<<"H", ".">> :> <<"h", "i", "n", "d", "u", "s", "t", "a", "n", "i">>)

citation_markers ==
    << <<"T", "R", ".">>,
       <<"B", "h", "g", ".">>,
       <<"C", "G", ".">>,
       <<"K", "R", ".">>,
       <<"T", "P", ".">>,
       <<"P", "T", ".">>,
       <<"A", "R", ".">>,
       <<"N", "a", "l", ".">>,
       <<"B", "h", "r", ".">>,
       <<"C", "C", ".">>,
       <<"R", "C", ".">>,
       <<"V", "y", "M", ".">>,
       <<"K", "U", ".">>,
       <<"M", "u", "d", ".">>,
       <<"C", "h", "V", "r", ".">>,
       <<"U", "R", ".">>,
       <<"G", "P", ".">>,
       <<"V", "C", "h", ".">>,
       <<"M", "C", ".">>,
       <<"M", "R", ".">>,
       <<"A", "n", "j", ".">>,
       <<"R", "S", ".">>,
       <<"S", "i", "P", "u", ".">>,
       <<"B", "h", "a", "g", ".">>,
       <<"N", "i", "d", ".">>,
       <<"A", "r", "b", ".">>,
       <<"M", "a", "t", "s", "y", ".">>,
       <<"V", "i", "v", "R", ".">>,
       <<"S", "a", "b", ".">>,
       <<"T", "a", "n", "t", "r", ".">>,
       <<"V", "e", "t", "C", ".">>,
       <<"A", "s", "h", "t", ".">>,
       <<"G", "a", "n", ".">>,
       <<"G", "n", "P", ".">>,
       <<"R", "h", ".">>,
       <<"P", "R", ".">>,
       <<"S", "k", ".">>,
       <<"T", "a", "t", "w", ".">>,
       <<"V", "e", "d", "D", ".">>,
       <<"K", "u", "m", "K", ".">>,
       <<"S", "a", "h", ".">>,
       <<"A", "n", "a", "c", "h", ".">>,
       <<"S", "i", " ", "P", "u", ".">> >>

\* The class [\u0D05-\u0D7F] of the head patterns, written with its two end
\* characters in the source.
HeadwordClass ==
    MalayalamHigh

\* Combining marks the romanization class lists (a sample): ring below.
CombiningMarks ==
    {"u0325"}

\* The class [a-zA-Z...] of the head patterns.
RomanClass ==
    AsciiLetter \cup RomanDiacritics \cup CombiningMarks

looks_like_entry(text) ==
    LET m == RunEnd(text, 1, HeadwordClass)
        w == SkipWs(text, m)
    IN  m > 1 /\ w > m /\ At(text, w) \in RomanClass

\* The alternatives of the etymology group other than V\d\.
EtymologyAlternatives ==
    { <<"S", ".">>, <<"T", ".">>, <<"M", ".">>, <<"C", ".">>, <<"T", "e", ".">>,
      <<"T", "u", ".">>, <<"S", "o", ".">>, <<"N", "o", ".">>, <<"T", "R", ".">>,
      <<"P", ".">>, <<"A", "r", ".">>, <<"P", "o", "r", "t", ".">>, <<"E", ".">>,
      <<"H", ".">>, <<"T", "d", "b", "h", ".">> }

\* The alternative of the etymology group that matches at position i, <<>>
\* when none does (no two alternatives match at one position).
etymology_marker_at(s, i) ==
    IF \E a \in EtymologyAlternatives : OccursAt(a, s, i)
    THEN CHOOSE a \in EtymologyAlternatives : OccursAt(a, s, i)
    ELSE IF At(s, i) = "V" /\ At(s, i + 1) \in Digit /\ At(s, i + 2) = "."
    THEN SubSeq(s, i, i + 2)
    ELSE <<>>

DigitValue(c) ==
    CHOOSE n \in 0..9 : ToString(n) = c

RECURSIVE int(_)
int(digits) ==
    IF digits = <<>> THEN 0
    ELSE 10 * int(SubSeq(digits, 1, Len(digits) - 1)) + DigitValue(digits[Len(digits)])

\* The pattern (?:^|\s)(\d+)\.\s+ at position p: where its digits start, 0
\* when it does not match at p.
sense_digits_at(s, p) ==
    LET d == IF p = 1 /\ At(s, 1) \in Digit THEN 1
             ELSE IF At(s, p) \in Whitespace /\ At(s, p + 1) \in Digit THEN p + 1
             ELSE 0
        e == RunEnd(s, d, Digit)
    IN  IF d # 0 /\ At(s, e) = "." /\ At(s, e + 1) \in Whitespace THEN d ELSE 0

\* Where that match ends (the position after its trailing whitespace).
sense_marker_end(s, p) ==
    SkipWs(s, RunEnd(s, sense_digits_at(s, p), Digit) + 1)

RECURSIVE SplitSenses(_, _, _)
\* re.split(sense_pattern, text): the text from `from` on, scanned from p.
SplitSenses(s, from, p) ==
    IF p > Len(s) THEN <<SubSeq(s, from, Len(s))>>
    ELSE IF sense_digits_at(s, p) # 0
    THEN LET d == sense_digits_at(s, p)
         IN  <<SubSeq(s, from, p - 1), SubSeq(s, d, RunEnd(s, d, Digit) - 1)>>
                 \o SplitSenses(s, sense_marker_end(s, p), sense_marker_end(s, p))
    ELSE SplitSenses(s, from, p + 1)

re_split_senses(text) ==
    SplitSenses(text, 1, 1)

Range(f) ==
    {f[i] : i \in DOMAIN f}

\* A variant of citations_list that looks for the marker less its periods.
citations_list_by_token(text) ==
    SelectSeq([i \in 1..Len(citation_markers) |->
                  SelectSeq(citation_markers[i], LAMBDA c : c # ".")],
              LAMBDA t : IsSubstring(t, text))

\* The list `citations` before set(): for each marker that is in the text,
\* in the order of citation_markers, the marker less its periods.
citations_list(text) ==
    LET found == SelectSeq(citation_markers, LAMBDA m : IsSubstring(m, text))
    IN  [i \in 1..Len(found) |-> SelectSeq(found[i], LAMBDA c : c # ".")]

\* list(set(citations)): a collection without duplicates, in no defined order.
extract_citations(text) ==
    Range(citations_list(text))

RECURSIVE SplitSentences(_, _, _)
\* re.split(r'[.!?]\s+', text): the text from `from` on, scanned from p.
SplitSentences(s, from, p) ==
    IF p > Len(s) THEN <<SubSeq(s, from, Len(s))>>
    ELSE IF s[p] \in {".", "!", "?"} /\ At(s, p + 1) \in Whitespace
    THEN <<SubSeq(s, from, p - 1)>>
             \o SplitSentences(s, SkipWs(s, p + 1), SkipWs(s, p + 1))
    ELSE SplitSentences(s, from, p + 1)

\* A variant of separate_languages that keeps every fragment without
\* Malayalam that is not blank.
separate_languages_any_length(text) ==
    LET sentences == SplitSentences(text, 1, 1)
        is_malayalam(sent) == \E i \in 1..Len(sent) : sent[i] \in HeadwordClass
    IN  [malayalam_parts |-> SelectSeq(sentences, is_malayalam),
         english_parts   |-> SelectSeq(sentences,
                                LAMBDA sent : ~is_malayalam(sent) /\ strip(sent) # <<>>)]

\* (malayalam_parts, english_parts)
separate_languages(text) ==
    LET sentences == SplitSentences(text, 1, 1)
        is_malayalam(sent) == \E i \in 1..Len(sent) : sent[i] \in HeadwordClass
    IN  [malayalam_parts |-> SelectSeq(sentences, is_malayalam),
         english_parts   |-> SelectSeq(sentences,
                                LAMBDA sent : ~is_malayalam(sent) /\ Len(strip(sent)) > 2)]

RECURSIVE join(_, _)
\* sep.join(parts)
join(sep, parts) ==
    IF parts = <<>> THEN <<>>
    ELSE IF Len(parts) = 1 THEN parts[1]
    ELSE parts[1] \o sep \o join(sep, Tail(parts))

\* The class of the cross-reference patterns: the headword class and a-zA-Z.
RefWordClass ==
    HeadwordClass \cup AsciiLetter

\* Where the word of a cross-reference pattern starts when the pattern
\* matches at p, 0 when it does not:
\*   synonym   \(=\s*(word)\)      see_also   see\s+(word), any case
\*   antonym   opp\.\s+(word)
ref_word_at(type, s, p) ==
    LET w == CASE type = "synonym"  -> IF OccursAt(<<"(", "=">>, s, p)
                                        THEN SkipWs(s, p + 2) ELSE 0
               [] type = "see_also" -> IF /\ At(s, p) \in {"s", "S"}
                                          /\ At(s, p + 1) \in {"e", "E"}
                                          /\ At(s, p + 2) \in {"e", "E"}
                                          /\ At(s, p + 3) \in Whitespace
                                       THEN SkipWs(s, p + 3) ELSE 0
               [] type = "antonym"  -> IF /\ OccursAt(<<"o", "p", "p", ".">>, s, p)
                                          /\ At(s, p + 4) \in Whitespace
                                       THEN SkipWs(s, p + 4) ELSE 0
    IN  IF w = 0 \/ At(s, w) \notin RefWordClass THEN 0
        ELSE IF type = "synonym" /\ At(s, RunEnd(s, w, RefWordClass)) # ")" THEN 0
        ELSE w

RECURSIVE FindRefs(_, _, _)
\* re.findall of the pattern of `type` from position p on, as references.
FindRefs(type, s, p) ==
    IF p > Len(s) THEN <<>>
    ELSE IF ref_word_at(type, s, p) # 0
    THEN LET w == ref_word_at(type, s, p)
             e == RunEnd(s, w, RefWordClass)
         IN  <<[type |-> type, word |-> SubSeq(s, w, e - 1)]>>
                 \o FindRefs(type, s, IF type = "synonym" THEN e + 1 ELSE e)
    ELSE FindRefs(type, s, p + 1)

\* A variant of extract_cross_refs that keeps the first match of each pattern.
extract_cross_refs_first(text) ==
    LET first(refs) == IF refs = <<>> THEN <<>> ELSE <<refs[1]>>
    IN  first(FindRefs("synonym", text, 1))
            \o first(FindRefs("see_also", text, 1))
            \o first(FindRefs("antonym", text, 1))

extract_cross_refs(text) ==
    FindRefs("synonym", text, 1) \o FindRefs("see_also", text, 1)
        \o FindRefs("antonym", text, 1)

parse_single_definition(sense_num, text) ==
    [sense      |-> sense_num,
     malayalam  |-> strip(join(<<" ">>, separate_languages(text).malayalam_parts)),
     english    |-> strip(join(<<" ">>, separate_languages(text).english_parts)),
     citations  |-> extract_citations(text),
     cross_refs |-> extract_cross_refs(text),
     raw        |-> strip(text)]

\* A variant of has_lead_sense without the parenthesis test.
has_lead_sense_any(first) ==
    strip(first) # <<>>

\* if parts[0].strip() and not parts[0].strip().startswith('('):
has_lead_sense(first) ==
    strip(first) # <<>> /\ ~startswith(strip(first), "(")

\* A variant of sense_number that counts the markers instead of reading them.
sense_number_by_position(parts, i) ==
    i \div 2

\* sense_num = int(parts[i]); i is the position of the digits in parts.
sense_number(parts, i) ==
    int(parts[i])

parse_definitions(text) ==
    LET parts == re_split_senses(text)
        lead  == IF has_lead_sense(parts[1])
                 THEN <<parse_single_definition(0, parts[1])>>
                 ELSE <<>>
    IN  lead \o [k \in 1..((Len(parts) - 1) \div 2) |->
                    parse_single_definition(sense_number(parts, 2 * k), parts[2 * k + 1])]

\* A variant of etymology_of that falls back to the marker itself.
etymology_of_marker_verbatim(etymology_marker) ==
    IF etymology_marker \in DOMAIN etymology_map
    THEN etymology_map[etymology_marker]
    ELSE etymology_marker

\* self.etymology_map.get(etymology_marker, '')
etymology_of(etymology_marker) ==
    IF etymology_marker \in DOMAIN etymology_map
    THEN etymology_map[etymology_marker]
    ELSE <<>>

extract_entry(text, page_num) ==
    LET m  == RunEnd(text, 1, HeadwordClass)
        w  == SkipWs(text, m)
        r  == RunEnd(text, w, RomanClass)
        w2 == SkipWs(text, r)
        etymology_marker == IF w2 > r THEN etymology_marker_at(text, w2) ELSE <<>>
        rest == IF etymology_marker # <<>>
                THEN SubSeq(text, w2 + Len(etymology_marker), Len(text))
                ELSE SubSeq(text, r, Len(text))
        definition_text == strip(rest)
    IN  IF ~(m > 1 /\ w > m /\ r > w) THEN None
        ELSE IF Len(definition_text) < 3 THEN None
        ELSE [kind             |-> "entry",
              malayalam        |-> SubSeq(text, 1, m - 1),
              romanization     |-> SubSeq(text, w, r - 1),
              etymology_marker |-> etymology_marker,
              etymology        |-> etymology_of(etymology_marker),
              page             |-> page_num,
              raw_definition   |-> definition_text,
              definitions      |-> parse_definitions(definition_text)]

\* The body of the paragraph loop of parse(), from the normalized text on.
parse_paragraph(text, page_num) ==
    IF text # <<>> /\ looks_like_entry(text) THEN extract_entry(text, page_num) ELSE None

-----------------------------------------------------------------------------
(* Helpers of the two dictpress exporters.                                 *)

UpperLetters ==
    <<"A", "B", "C", "D", "E", "F", "G", "H", "I", "J", "K", "L", "M", "N",
      "O", "P", "Q", "R", "S", "T", "U", "V", "W", "X", "Y", "Z">>

LowerLetters ==
    <<"a", "b", "c", "d", "e", "f", "g", "h", "i", "j", "k", "l", "m", "n",
      "o", "p", "q", "r", "s", "t", "u", "v", "w", "x", "y", "z">>

\* str.lower(), on the characters of the model: A-Z go to a-z.
lower(s) ==
    [i \in 1..Len(s) |->
        IF s[i] \in Upper
        THEN LowerLetters[CHOOSE k \in 1..Len(UpperLetters) : UpperLetters[k] = s[i]]
        ELSE s[i]]

\* json.dumps of one character of a string (ensure_ascii=False).
json_char(c) ==
    IF c = "\"" THEN <<"\\", "\"">>
    ELSE IF c = "\\" THEN <<"\\", "\\">>
    ELSE IF c = "\n" THEN <<"\\", "n">>
    ELSE IF c = "\t" THEN <<"\\", "t">>
    ELSE <<c>>

\* json.dumps of a string.
json_string(s) ==
    <<"\"">> \o join(<<>>, [i \in 1..Len(s) |-> json_char(s[i])]) \o <<"\"">>

-----------------------------------------------------------------------------
(* gundert_to_dictpress.py: DictpressExporter.export                       *)

\* The sequences that list every element of the set S once: the orders in
\* which iterating over a Python set of strings can yield its elements.
Orderings(S) ==
    {f \in [1..Cardinality(S) -> S] : \A i, j \in 1..Cardinality(S) : f[i] = f[j] => i = j}

\* The citations of all the senses of the entries.
AllCitations(es) ==
    UNION {UNION {es[i].definitions[j].citations : j \in 1..Len(es[i].definitions)} :
              i \in 1..Len(es)}

\* ', '.join(defn['citations']); order is the order the set iterates in.
citations_note(citations, order) ==
    join(<<",", " ">>, SelectSeq(order, LAMBDA c : c \in citations))

\* json.dumps({'source': 'gundert', 'year': 1872, 'page': ..., 'etymology': ...})
Gundert_meta(entry) ==
    <<"{", "\"", "s", "o", "u", "r", "c", "e", "\"", ":", " ", "\"", "g", "u",
      "n", "d", "e", "r", "t", "\"", ",", " ", "\"", "y", "e", "a", "r", "\"",
      ":", " ", "1", "8", "7", "2", ",", " ", "\"", "p", "a", "g", "e", "\"",
      ":", " ">>
        \o json_string(entry.page)
        \o <<",", " ", "\"", "e", "t", "y", "m", "o", "l", "o", "g", "y", "\"",
             ":", " ">> \o json_string(entry.etymology) \o <<"}">>

Gundert_tag_str(entry) ==
    join(<<"|">>, <<<<"g", "u", "n", "d", "e", "r", "t">>>>
                      \o (IF entry.etymology # <<>> THEN <<entry.etymology>> ELSE <<>>))

Gundert_main_row(entry) ==
    << <<"-">>,
       IF entry.malayalam # <<>> THEN <<entry.malayalam[1]>> ELSE <<>>,
       entry.malayalam,
       <<"m", "a", "l", "a", "y", "a", "l", "a", "m">>,
       <<"G", "u", "n", "d", "e", "r", "t", " ", "(", "1", "8", "7", "2", ")",
         " ", "p", ".">> \o entry.page,
       <<>>,
       <<>>,
       Gundert_tag_str(entry),
       entry.romanization,
       <<>>,
       Gundert_meta(entry) >>

\* if defn['english'] and len(defn['english']) > 3: the English row of a sense.
Gundert_english_rows(defn, order) ==
    IF Len(defn.english) > 3
    THEN << << <<"^">>, <<>>, strip(defn.english), <<"e", "n", "g", "l", "i", "s", "h">>,
               citations_note(defn.citations, order), <<"e", "n", "g", "l", "i", "s", "h">>,
               <<>>, <<>>, <<>>, <<"n", "o", "u", "n">>, <<>> >> >>
    ELSE <<>>

\* if defn['malayalam'] and len(defn['malayalam']) > 3: the Malayalam row of a sense.
Gundert_malayalam_rows(defn, order) ==
    IF Len(defn.malayalam) > 3
    THEN << << <<"^">>, <<>>, strip(defn.malayalam), <<"m", "a", "l", "a", "y", "a", "l", "a",
                                                       "m">>,
               citations_note(defn.citations, order), <<>>,
               <<>>, <<>>, <<>>, <<>>, <<>> >> >>
    ELSE <<>>

\* The rows of one entry: the main row, then the rows of its senses.
Gundert_entry_rows(entry, order) ==
    <<Gundert_main_row(entry)>>
        \o join(<<>>, [j \in 1..Len(entry.definitions) |->
                          Gundert_english_rows(entry.definitions[j], order)
                              \o Gundert_malayalam_rows(entry.definitions[j], order)])

\* `for entry in self.entries`: the rows written for the entries.
Gundert_export(es, order) ==
    join(<<>>, [i \in 1..Len(es) |-> Gundert_entry_rows(es[i], order)])

-----------------------------------------------------------------------------
(* stv_to_dictpress.py: STVParser.parse_entry and get_text.  An element is *)
(* a record of its tag, attributes, text, children and tail.               *)

Element(tag, attrib, text, children, tail) ==
    [tag |-> tag, attrib |-> attrib, text |-> text, children |-> children, tail |-> tail]

\* element.findall(tag): the children with the tag, in document order.
Element_findall(element, tag) ==
    SelectSeq(element.children, LAMBDA c : c.tag = tag)

\* element.find(tag): the first child with the tag, or None.
Element_find(element, tag) ==
    IF Element_findall(element, tag) = <<>> THEN None ELSE Element_findall(element, tag)[1]

\* element.get(key, default)
Element_get(element, key, default) ==
    IF key \in DOMAIN element.attrib THEN element.attrib[key] ELSE default

RECURSIVE STV_get_text(_)
RECURSIVE STV_children_text(_, _)
\* The parts that the children from the i-th on add to text_parts.
STV_children_text(children, i) ==
    IF i > Len(children) THEN <<>>
    ELSE STV_get_text(children[i])
             \o (IF children[i].tag = "br" THEN <<" ">> ELSE <<>>)
             \o children[i].tail
             \o STV_children_text(children, i + 1)

\* STVParser.get_text
STV_get_text(element) ==
    strip(element.text \o STV_children_text(element.children, 1))

\* One item of definitions per element whose text is not empty.
STV_text_items(elements, type) ==
    join(<<>>, [i \in 1..Len(elements) |->
                   IF STV_get_text(elements[i]) # <<>>
                   THEN <<[type |-> type, text |-> STV_get_text(elements[i]),
                           language |-> "malayalam"]>>
                   ELSE <<>>])

\* One item per <ex> that has an <ex_orig> with text.
STV_example_items(exs) ==
    join(<<>>, [i \in 1..Len(exs) |->
                   LET ex_orig == Element_find(exs[i], "ex_orig")
                   IN  IF ex_orig # None /\ STV_get_text(ex_orig) # <<>>
                       THEN <<[type |-> "example", text |-> STV_get_text(ex_orig),
                               example_type |-> Element_get(exs[i], "type", <<"e", "x", "m">>),
                               language |-> "malayalam"]>>
                       ELSE <<>>])

\* The items of one nested <def>: its deftexts, explanations, examples.
STV_sub_def_items(sub_def) ==
    STV_text_items(Element_findall(sub_def, "deftext"), "definition")
        \o STV_text_items(Element_findall(sub_def, "expl"), "explanation")
        \o STV_example_items(Element_findall(sub_def, "ex"))

STV_definitions(def_element) ==
    STV_text_items(Element_findall(def_element, "deftext"), "definition")
        \o join(<<>>, [i \in 1..Len(Element_findall(def_element, "def")) |->
                          STV_sub_def_items(Element_findall(def_element, "def")[i])])
        \o STV_text_items(Element_findall(def_element, "expl"), "explanation")
        \o STV_example_items(Element_findall(def_element, "ex"))

\* The krefs of the first <sr> that have text, with their type ('rel' if absent).
STV_cross_refs(def_element) ==
    LET sr == Element_find(def_element, "sr")
    IN  IF sr = None THEN <<>>
        ELSE LET krefs == Element_findall(sr, "kref")
             IN  join(<<>>, [i \in 1..Len(krefs) |->
                                IF STV_get_text(krefs[i]) # <<>>
                                THEN <<[word |-> STV_get_text(krefs[i]),
                                        type |-> Element_get(krefs[i], "type", <<"r", "e", "l">>)]>>
                                ELSE <<>>])

STV_optional_text(def_element, tag) ==
    IF Element_find(def_element, tag) # None
    THEN STV_get_text(Element_find(def_element, tag))
    ELSE <<>>

\* STVParser.parse_entry
parse_entry(ar) ==
    LET k_elements == Element_findall(ar, "k")
    IN  IF k_elements = <<>> THEN None
        ELSE IF STV_get_text(k_elements[1]) = <<>> THEN None
        ELSE IF Element_find(ar, "def") = None THEN None
        ELSE LET def_element == Element_find(ar, "def")
             IN  [kind        |-> "entry",
                  headword    |-> STV_get_text(k_elements[1]),
                  grammar     |-> STV_optional_text(def_element, "gr"),
                  definitions |-> STV_definitions(def_element),
                  cross_refs  |-> STV_cross_refs(def_element),
                  etymology   |-> STV_optional_text(def_element, "etm")]

-----------------------------------------------------------------------------
(* stv_to_dictpress.py: DictpressExporter.export                           *)

pos_mapping ==
       (<<"a", "d", "j", ".">> :> <<"a", "d", "j", "e", "c", "t", "i", "v", "e">>)
    @@ (<<"n", ".">> :> <<"n", "o", "u", "n">>)
    @@ (<<"v", ".">> :> <<"v", "e", "r", "b">>)
    @@ (<<"t", "r", "v", ".">> :> <<"t", "r", "a", "n", "s", "i", "t", "i", "v", "e", "-", "v",
              "e", "r", "b">>)
    @@ (<<"a", "d", "v", ".">> :> <<"a", "d", "v", "e", "r", "b">>)
    @@ (<<"p", "r", "o", "n", ".">> :> <<"p", "r", "o", "n", "o", "u", "n">>)
    @@ (<<"c", "o", "n", "j", ".">> :> <<"c", "o", "n", "j", "u", "n", "c", "t", "i", "o", "n">>)
    @@ (<<"i", "n", "t", "e", "r", "j", ".">> :> <<"i", "n", "t", "e", "r", "j", "e", "c", "t", "i", "o", "n">>)

type_labels ==
       (<<"e", "x", "m">> :> <<"u0D09", "u0D26", "u0D3E", "u0D39", "u0D30", "u0D23", "u0D02">>)
    @@ (<<"p", "o", "e", "m">> :> <<"u0D15", "u0D35", "u0D3F", "u0D24">>)
    @@ (<<"p", "r", "v">> :> <<"u0D2A", "u0D34", "u0D1E", "u0D4D", "u0D1A", "u0D4A", "u0D7D">>)
    @@ (<<"p", "h", "r">> :> <<"u0D2A", "u0D26", "u0D2A", "u0D4D", "u0D30", "u0D2F", "u0D4B",
              "u0D17", "u0D02">>)

ref_type_labels ==
       (<<"s", "y", "n">> :> <<"u0D2A", "u0D30", "u0D4D", "u0D2F", "u0D3E", "u0D2F", "u0D02">>)
    @@ (<<"a", "n", "t">> :> <<"u0D35", "u0D3F", "u0D2A", "u0D30", "u0D40", "u0D24", "u0D02">>)
    @@ (<<"r", "e", "l">> :> <<"u0D2C", "u0D28", "u0D4D", "u0D27", "u0D2A", "u0D4D", "u0D2A",
              "u0D46", "u0D1F", "u0D4D", "u0D1F", "u0D24", "u0D4D">>)
    @@ (<<"h", "p", "r">> :> <<"u0D09", "u0D2A", "u0D30", "u0D3F", "u0D35", "u0D7C", "u0D17",
              "u0D4D", "u0D17", "u0D02">>)
    @@ (<<"h", "p", "n">> :> <<"u0D05", "u0D27", "u0D4B", "u0D35", "u0D7C", "u0D17", "u0D4D",
              "u0D17", "u0D02">>)

\* json.dumps({'source': ..., 'year': 1917, 'author': ..., 'grammar': ..., 'etymology': ...})
STV_meta(entry) ==
    <<"{", "\"", "s", "o", "u", "r", "c", "e", "\"", ":", " ", "\"", "s", "a",
      "b", "d", "a", "t", "h", "a", "r", "a", "v", "a", "l", "i", "\"", ",",
      " ", "\"", "y", "e", "a", "r", "\"", ":", " ", "1", "9", "1", "7", ",",
      " ", "\"", "a", "u", "t", "h", "o", "r", "\"", ":", " ">>
        \o <<"\"", "S", "r", "e", "e", "k", "a", "n", "t", "e", "s", "w", "a",
             "r", "a", "m", " ", "P", "a", "d", "m", "a", "n", "a", "b", "h",
             "a", " ", "P", "i", "l", "l", "a", "i", "\"", ",", " ", "\"", "g",
             "r", "a", "m", "m", "a", "r", "\"", ":", " ">>
        \o json_string(entry.grammar)
        \o <<",", " ", "\"", "e", "t", "y", "m", "o", "l", "o", "g", "y", "\"",
             ":", " ">> \o json_string(entry.etymology) \o <<"}">>

\* The part-of-speech tag of the main row, if the grammar text names one.
STV_pos_tags(grammar) ==
    LET grammar_lower == lower(grammar)
    IN  IF grammar = <<>> THEN <<>>
        ELSE IF IsSubstring(<<"u0D28", "u0D3E", "u0D2E", "u0D02">>, grammar_lower)
                    \/ IsSubstring(<<"n", ".">>, grammar_lower)
             THEN <<<<"n", "o", "u", "n">>>>
        ELSE IF IsSubstring(<<"u0D15", "u0D4D", "u0D30", "u0D3F", "u0D2F">>, grammar_lower)
                    \/ IsSubstring(<<"v", ".">>, grammar_lower)
             THEN <<<<"v", "e", "r", "b">>>>
        ELSE IF IsSubstring(<<"u0D35", "u0D3F", "u0D36", "u0D47", "u0D37",
                              "u0D23", "u0D02">>, grammar_lower)
                    \/ IsSubstring(<<"a", "d", "j", ".">>, grammar_lower)
             THEN <<<<"a", "d", "j", "e", "c", "t", "i", "v", "e">>>>
        ELSE <<>>

STV_tag_str(entry) ==
    join(<<"|">>, <<<<"s", "t", "v">>, <<"s", "a", "b", "d", "a", "t", "h", "a", "r", "a",
                             "v", "a", "l", "i">>>> \o STV_pos_tags(entry.grammar))

STV_main_row(entry) ==
    << <<"-">>,
       IF entry.headword # <<>> THEN <<entry.headword[1]>> ELSE <<>>,
       entry.headword,
       <<"m", "a", "l", "a", "y", "a", "l", "a", "m">>,
       IF entry.grammar # <<>>
       THEN <<"S", "T", "V", " ", "(", "1", "9", "1", "7", ")", " ">> \o entry.grammar
       ELSE <<"S", "T", "V", " ", "(", "1", "9", "1", "7", ")">>,
       <<>>,
       <<>>,
       STV_tag_str(entry),
       <<>>,
       <<>>,
       STV_meta(entry) >>

\* pos_mapping.get(entry['grammar'], entry['grammar']) if entry['grammar'] else ''
definition_pos(grammar) ==
    IF grammar \in DOMAIN pos_mapping THEN pos_mapping[grammar] ELSE grammar

\* The content cell of a definition row: the text, labelled by its type.
STV_content(defn) ==
    IF defn.type = "example"
    THEN <<"[">> \o (IF defn.example_type \in DOMAIN type_labels
                     THEN type_labels[defn.example_type]
                     ELSE <<"u0D09", "u0D26", "u0D3E", "u0D39", "u0D30",
                            "u0D23", "u0D02">>)
                 \o <<"]", " ">> \o strip(defn.text)
    ELSE IF defn.type = "explanation"
    THEN <<"[">> \o <<"u0D35", "u0D3F", "u0D36", "u0D26", "u0D40", "u0D15",
                      "u0D30", "u0D23", "u0D02">> \o <<"]", " ">> \o strip(defn.text)
    ELSE strip(defn.text)

\* if len(defn['text']) < 2: continue
STV_skips_definition(defn) ==
    Len(defn.text) < 2

STV_definition_rows(entry) ==
    join(<<>>, [i \in 1..Len(entry.definitions) |->
                   IF STV_skips_definition(entry.definitions[i]) THEN <<>>
                   ELSE << << <<"^">>, <<>>, STV_content(entry.definitions[i]),
                              <<"m", "a", "l", "a", "y", "a", "l", "a", "m">>, <<>>, <<>>, <<>>, <<>>, <<>>,
                              definition_pos(entry.grammar), <<>> >> >>])

STV_cross_ref_rows(entry) ==
    [i \in 1..Len(entry.cross_refs) |->
        << <<"^">>, <<>>,
           <<"[">> \o (IF entry.cross_refs[i].type \in DOMAIN ref_type_labels
                       THEN ref_type_labels[entry.cross_refs[i].type]
                       ELSE <<"u0D15", "u0D3E", "u0D23", "u0D41", "u0D15">>)
                   \o <<"]", " ">> \o entry.cross_refs[i].word,
           <<"m", "a", "l", "a", "y", "a", "l", "a", "m">>, <<>>, <<>>, <<>>, <<>>, <<>>, <<>>, <<>> >>]

\* The rows of one entry: main row, definition rows, cross-reference rows.
STV_entry_rows(entry) ==
    <<STV_main_row(entry)>> \o STV_definition_rows(entry) \o STV_cross_ref_rows(entry)

\* `for entry in self.entries`: the rows written for the entries.
STV_export(es) ==
    join(<<>>, [i \in 1..Len(es) |-> STV_entry_rows(es[i])])

\* filepath.endswith('.dtd')
is_dtd(filepath) ==
    /\ Len(filepath) >= 4
    /\ SubSeq(filepath, Len(filepath) - 3, Len(filepath)) = <<".", "d", "t", "d">>

\* A message written with print().
Message(text) ==
    [kind |-> "message", text |-> text]

\* ET.parse(filepath) raises for a file that cannot be read (OSError) or
\* whose text is not a well-formed document (ParseError).
ET_parse_raises(file) ==
    ~file.readable \/ ~file.well_formed

\* STVParser.parse_file with the `except Exception` left out of account: the
\* <ar> elements written in the file are parsed whether or not ET.parse
\* accepted the file.
parse_file_unguarded(file) ==
    LET lexicon == Element_find(file.root, "lexicon")
    IN  IF lexicon = None
        THEN [entries |-> <<>>, message |-> Message("Warning: No lexicon found")]
        ELSE LET ars == Element_findall(lexicon, "ar")
             IN  [entries |-> SelectSeq([i \in 1..Len(ars) |-> parse_entry(ars[i])],
                                        LAMBDA e : e # None),
                  message |-> Message("Found entries")]

\* STVParser.parse_file: the entries appended to self.entries and the last
\* message written.  `meta.find('title').text` raises AttributeError for a
\* <meta_info> without <title>; every exception is caught and reported.
parse_file(file) ==
    IF ET_parse_raises(file)
    THEN [entries |-> <<>>, message |-> Message("Error parsing")]
    ELSE LET root    == file.root
             meta    == Element_find(root, "meta_info")
             lexicon == Element_find(root, "lexicon")
         IN  IF meta # None /\ Element_find(meta, "title") = None
             THEN [entries |-> <<>>, message |-> Message("Error parsing")]
             ELSE IF lexicon = None
             THEN [entries |-> <<>>, message |-> Message("Warning: No lexicon found")]
             ELSE LET ars == Element_findall(lexicon, "ar")
                  IN  [entries |-> SelectSeq([i \in 1..Len(ars) |-> parse_entry(ars[i])],
                                             LAMBDA e : e # None),
                       message |-> Message("Found entries")]

\* `for filepath in sorted(files)` of STVParser.parse_files: what
\* self.entries holds after the loop.
RECURSIVE parse_files_loop(_, _)
parse_files_loop(self_entries, files) ==
    IF files = <<>> THEN self_entries
    ELSE parse_files_loop(IF is_dtd(files[1].path)
                          THEN self_entries
                          ELSE self_entries \o parse_file(files[1]).entries,
                          Tail(files))

\* STVParser.parse_files on the sorted files the pattern matches: what is
\* returned, a new empty list when no file matches and self.entries else.
parse_files(self_entries, files) ==
    IF files = <<>> THEN <<>> ELSE parse_files_loop(self_entries, files)

-----------------------------------------------------------------------------
(* preprocess_bailey.py: the fixes of preprocess_line.  A pattern is the   *)
(* sequence of its atoms: "\\b", "\\s*", "\\s+", "[a-z]+", "[M]" for the   *)
(* class [\u0D00-\u0D7F], and every other atom a literal character.     *)

\* The class [A-Za-z\s\-\'] of the headword patterns.
BaileyHeadClass ==
    AsciiLetter \cup Whitespace \cup {"-", "'"}

\* The class [a-z. &] of the grammar-marker patterns.
PosClass ==
    AsciiLower \cup {".", " ", "&"}

\* The letters of the Malayalam sample; the other characters of it are signs.
MalayalamLetter ==
    {"u0D05", "u0D15", "u0D37"}

\* What \w matches in a str pattern.
WordChar ==
    AsciiLetter \cup Digit \cup {"_"} \cup RomanDiacritics \cup OtherLower
        \cup MalayalamLetter

\* \b at position i: exactly one of the characters before and at i is a word
\* character.
word_boundary(s, i) ==
    (At(s, i - 1) \in WordChar) # (At(s, i) \in WordChar)

\* (\s+[a-z. &]+\.)(\s+[\u0D00-\u0D7F]) matches at position i.
pos_and_space_at(line, i) ==
    \E a \in (i + 1)..Len(line), b \in (i + 2)..Len(line),
       c \in (i + 4)..Len(line) :
        /\ a < b
        /\ b + 1 < c
        /\ \A k \in i..(a - 1) : line[k] \in Whitespace
        /\ \A k \in a..(b - 1) : line[k] \in PosClass
        /\ line[b] = "."
        /\ \A k \in (b + 1)..(c - 1) : line[k] \in Whitespace
        /\ line[c] \in MalayalamBlock

\* re.match(r'^([A-Za-z][A-Za-z\s\-\']+)<sep>(\s+[a-z. &]+\.)(\s+[\u0D00-\u0D7F])'):
\* the length of group 1, 0 when the line does not match.
headword_match(line, sep) ==
    IF At(line, 1) \notin AsciiLetter THEN 0
    ELSE LET e == RunEnd(line, 2, BaileyHeadClass)
         IN  IF e > 2 /\ At(line, e) = sep /\ pos_and_space_at(line, e + 1)
             THEN e - 1
             ELSE 0

\* fixed_line = f"{headword},{pos_and_space}{rest}"
separator_to_comma(line, sep) ==
    LET n == headword_match(line, sep)
    IN  IF n = 0 THEN line
        ELSE SubSeq(line, 1, n) \o <<",">> \o SubSeq(line, n + 2, Len(line))

fix_period_after_headword(line) ==
    separator_to_comma(line, ".")

fix_semicolon_after_headword(line) ==
    separator_to_comma(line, ";")

\* The ways r'^(\s*)([a-z. &]{1,15})(\s+)([\u0D00-\u0D7F])' matches rest: the
\* lengths of groups 1 and 2.
missing_period_matches(rest) ==
    {g \in (0..Len(rest)) \X (1..15) :
        /\ \A k \in 1..g[1] : rest[k] \in Whitespace
        /\ g[1] + g[2] < Len(rest)
        /\ \A k \in (g[1] + 1)..(g[1] + g[2]) : rest[k] \in PosClass
        /\ SkipWs(rest, g[1] + g[2] + 1) > g[1] + g[2] + 1
        /\ At(rest, SkipWs(rest, g[1] + g[2] + 1)) \in MalayalamBlock}

\* The match the engine returns: both groups greedy, the first one first.
missing_period_match(rest) ==
    LET m  == missing_period_matches(rest)
        g1 == Max({g[1] : g \in m})
    IN  <<g1, Max({g[2] : g \in {h \in m : h[1] = g1}})>>

fix_missing_period_after_pos(line) ==
    LET first_comma == find(line, ",")
        rest        == SubSeq(line, first_comma + 1, Len(line))
    IN  IF first_comma = 0 THEN line
        ELSE IF missing_period_matches(rest) = {} THEN line
        ELSE LET g   == missing_period_match(rest)
                 pos == strip(SubSeq(rest, g[1] + 1, g[1] + g[2]))
             IN  IF endswith(pos, ".") THEN line
                 ELSE SubSeq(line, 1, first_comma) \o SubSeq(rest, 1, g[1])
                          \o pos \o <<".">>
                          \o SubSeq(rest, g[1] + g[2] + 1, Len(rest))

\* r'^(\s*)([a-z. &]+)(,)(\s+)([\u0D00-\u0D7F])' matches rest: the position of
\* group 3, 0 when rest does not match.
comma_after_pos_match(rest) ==
    LET k == find(rest, ",")
    IN  IF /\ k >= 2
           /\ \E g1 \in 0..(k - 2) :
                 /\ \A j \in 1..g1 : rest[j] \in Whitespace
                 /\ \A j \in (g1 + 1)..(k - 1) : rest[j] \in PosClass
           /\ SkipWs(rest, k + 1) > k + 1
           /\ At(rest, SkipWs(rest, k + 1)) \in MalayalamBlock
        THEN k
        ELSE 0

fix_comma_after_pos(line) ==
    LET first_comma == find(line, ",")
        rest        == SubSeq(line, first_comma + 1, Len(line))
        k           == comma_after_pos_match(rest)
    IN  IF first_comma = 0 THEN line
        ELSE IF k = 0 THEN line
        ELSE SubSeq(line, 1, first_comma) \o SubSeq(rest, 1, k - 1) \o <<".">>
                 \o SubSeq(rest, k + 1, Len(rest))

\* A literal atom matches the character c; under re.IGNORECASE its case is
\* ignored.
literal_matches(atom, c, ignorecase) ==
    \/ c = atom
    \/ ignorecase /\ c # "" /\ lower(<<c>>) = <<atom>>

RECURSIVE match_end(_, _, _, _, _)
\* The atoms k.. of the pattern match s at position i: the position after the
\* match, 0 when there is none.  Every repetition of these patterns is followed
\* by an atom that none of its characters matches, so it takes its whole run.
match_end(s, i, pattern, k, ignorecase) ==
    IF k > Len(pattern) THEN i
    ELSE IF pattern[k] = "\\b"
    THEN IF word_boundary(s, i)
         THEN match_end(s, i, pattern, k + 1, ignorecase) ELSE 0
    ELSE IF pattern[k] = "\\s*"
    THEN match_end(s, SkipWs(s, i), pattern, k + 1, ignorecase)
    ELSE IF pattern[k] = "\\s+"
    THEN IF SkipWs(s, i) > i
         THEN match_end(s, SkipWs(s, i), pattern, k + 1, ignorecase) ELSE 0
    ELSE IF pattern[k] = "[a-z]+"
    THEN IF RunEnd(s, i, AsciiLower) > i
         THEN match_end(s, RunEnd(s, i, AsciiLower), pattern, k + 1, ignorecase)
         ELSE 0
    ELSE IF pattern[k] = "[M]"
    THEN IF At(s, i) \in MalayalamBlock
         THEN match_end(s, i + 1, pattern, k + 1, ignorecase) ELSE 0
    ELSE IF literal_matches(pattern[k], At(s, i), ignorecase)
         THEN match_end(s, i + 1, pattern, k + 1, ignorecase) ELSE 0

RECURSIVE sub_from(_, _, _, _, _)
\* re.sub(pattern, repl, s) from position i on: the leftmost matches, none
\* overlapping another, are replaced.
sub_from(pattern, repl, s, i, ignorecase) ==
    IF i > Len(s) THEN <<>>
    ELSE LET e == match_end(s, i, pattern, 1, ignorecase)
         IN  IF e = 0
             THEN <<s[i]>> \o sub_from(pattern, repl, s, i + 1, ignorecase)
             ELSE repl \o sub_from(pattern, repl, s, e, ignorecase)

re_sub(pattern, repl, s) ==
    sub_from(pattern, repl, s, 1, FALSE)

re_sub_ignorecase(pattern, repl, s) ==
    sub_from(pattern, repl, s, 1, TRUE)

\* r'\b([a-z]+)\s+\.(\s+[\u0D00-\u0D7F])'
space_before_period ==
    <<"\\b", "[a-z]+", "\\s+", ".", "\\s+", "[M]">>

RECURSIVE sub_space_before_period(_, _)
\* re.sub(r'\b([a-z]+)\s+\.(\s+[\u0D00-\u0D7F])', r'\1.\2', s) from position i.
sub_space_before_period(s, i) ==
    IF i > Len(s) THEN <<>>
    ELSE LET e == match_end(s, i, space_before_period, 1, FALSE)
             w == RunEnd(s, i, AsciiLower)
         IN  IF e = 0
             THEN <<s[i]>> \o sub_space_before_period(s, i + 1)
             ELSE SubSeq(s, i, w - 1) \o SubSeq(s, SkipWs(s, w), e - 1)
                      \o sub_space_before_period(s, e)

v_a ==
    <<"v", ".", " ", "a">>

v_n ==
    <<"v", ".", " ", "n">>

normalize_pos_spacing(line) ==
    LET l1 == re_sub(<<"\\b", "v", ".", "a", "\\b">>, v_a, line)
        l2 == re_sub(<<"\\b", "v", ".", "n", "\\b">>, v_n, l1)
        l3 == re_sub(<<"\\b", "v", "\\s+", ".", "\\s+", "a", "\\b">>, v_a, l2)
        l4 == re_sub(<<"\\b", "v", "\\s+", ".", "\\s+", "n", "\\b">>, v_n, l3)
        l5 == sub_space_before_period(l4, 1)
        l6 == re_sub(<<"\\b", "v", ".", "a", ".">>, v_a, l5)
    IN  re_sub(<<"\\b", "v", ".", "n", ".">>, v_n, l6)

\* The replacements of normalize_pos_variants, in the order of the dict.
replacements ==
    << <<<<"\\b", "v", "\\s*", ".", "\\s*", "a", "\\b">>, v_a>>,
       <<<<"\\b", "v", "\\s*", ".", "\\s*", "n", "\\b">>, v_n>>,
       <<<<"\\b", "v", "\\s*", ".", "\\s*", "a", "\\s*", ".", "\\s*", "&",
           "\\s*", "n", "\\b">>,
         <<"v", ".", " ", "a", ".", " ", "&", " ", "n">>>>,
       <<<<"\\b", "v", "\\s*", ".", "\\s*", "n", "\\s*", ".", "\\s*", "&",
           "\\s*", "a", "\\b">>,
         <<"v", ".", " ", "n", ".", " ", "&", " ", "a">>>>,
       <<<<"\\b", "s", "\\s*", ".", "\\s*", "p", "l", "\\b">>,
         <<"s", ".", " ", "p", "l", "u", "r", "a", "l">>>>,
       <<<<"\\b", "s", "\\s*", ".", "\\s*", "p", "l", "u", "\\b">>,
         <<"s", ".", " ", "p", "l", "u", "r", "a", "l">>>>,
       <<<<"\\b", "p", "r", "o", "n", "\\s*", ".", "\\s*", "p", "o", "s", "s",
           "\\b">>,
         <<"p", "r", "o", "n", ".", " ", "p", "o", "s", "s", "e", "s", "s",
           "i", "v", "e">>>>,
       <<<<"\\b", "p", "r", "e", "p", "\\s*", ".", "\\s*", "&", "\\s*", "a",
           "d", "\\b">>,
         <<"p", "r", "e", "p", ".", " ", "&", " ", "a", "d">>>>,
       <<<<"\\b", "a", "d", "\\s*", ".", "\\s*", "&", "\\s*", "p", "r", "e",
           "p", "\\b">>,
         <<"a", "d", ".", " ", "&", " ", "p", "r", "e", "p">>>> >>

RECURSIVE apply_replacements(_, _)
\* for pattern, replacement in replacements.items(): the first n of them.
apply_replacements(line, n) ==
    IF n = 0 THEN line
    ELSE re_sub_ignorecase(replacements[n][1], replacements[n][2],
                           apply_replacements(line, n - 1))

normalize_pos_variants(line) ==
    apply_replacements(line, Len(replacements))

preprocess_line(line) ==
    IF strip(line) = <<>> THEN line
    ELSE IF isupper(strip(line)) THEN line
    ELSE normalize_pos_variants(
             normalize_pos_spacing(
                 fix_comma_after_pos(
                     fix_missing_period_after_pos(
                         fix_semicolon_after_headword(
                             fix_period_after_headword(line))))))

-----------------------------------------------------------------------------
(* Inputs of clean_text: markup put together from at most MaxFrags          *)
(* fragments: letters, a space, the line-break markers, a tag, entities.   *)

MaxFrags == 3

LB_PAIR ==
    <<"<", "l", "b", ">", "<", "/", "l", "b", ">">>

LB_SELF ==
    <<"<", "l", "b", "/", ">">>

LB_BARE ==
    <<"<", "l", "b", ">">>

LineBreakMarkers ==
    {LB_PAIR, LB_SELF, LB_BARE}

LetterFrags ==
    {<<"b">>, <<"u0D15">>}

Fragments ==
    LetterFrags \cup LineBreakMarkers
        \cup {<<" ">>, <<"<", "b", ">">>, <<"&", "l", "t", ";">>, <<"&", "g", "t", ";">>}

RECURSIVE Concat(_)
Concat(fs) ==
    IF fs = <<>> THEN <<>> ELSE Head(fs) \o Concat(Tail(fs))

CleanInit ==
    /\ op = "none"
    /\ res = NoValue
    /\ arg \in {[frags |-> fs, markup |-> Concat(fs), build |-> b] :
                    fs \in SeqsOf(Fragments, 0, MaxFrags), b \in UnclosedTagAtEOF}
    /\ PassIdle

\* text = self.clean_text(p)
CleanText ==
    /\ op = "none"
    /\ op' = "clean_text"
    /\ res' = clean_text(arg.markup, arg.build)
    /\ UNCHANGED <<arg, passVars>>

\* The normalizer run again on its own output.
CleanTextAgain ==
    /\ op = "clean_text"
    /\ op' = "clean_text_again"
    /\ res' = [first |-> res, second |-> clean_text(res, arg.build)]
    /\ UNCHANGED <<arg, passVars>>

CleanNext ==
    \/ CleanText
    \/ CleanTextAgain

SpecClean ==
    CleanInit /\ [][CleanNext]_vars

-----------------------------------------------------------------------------
(* Inputs of parse_definitions: a lead-in text and then numbered senses,   *)
(* each written as its digits, a period, a space and its body; a space     *)
(* stands before the digits unless the text starts with them.              *)

MaxSenses == 2

Leads ==
    { <<>>, <<" ">>, <<"E">>, <<"(", "E", ")">>, <<" ", "(", "E">>, <<"E", " ", "(">> }

SenseDigits ==
    { <<"1">>, <<"3">>, <<"1", "2">> }

\* Bodies: plain, with a sentence break, with a parenthesis, with digits
\* that are no sense marker (after a letter; without a space after the
\* period), and empty.
SenseBodies ==
    { <<"F">>, <<"F", ".", " ", "G">>, <<"(", "F">>, <<"F", "2", ".", " ", "G">>,
      <<"2", ".", "F">>, <<>> }

WrittenSenses ==
    [digits : SenseDigits, body : SenseBodies]

RECURSIVE SenseText(_, _)
SenseText(lead, senses) ==
    IF senses = <<>> THEN lead
    ELSE LET before == SenseText(lead, SubSeq(senses, 1, Len(senses) - 1))
             last   == senses[Len(senses)]
         IN  before \o (IF before = <<>> THEN <<>> ELSE <<" ">>)
                    \o last.digits \o <<".", " ">> \o last.body

SenseInit ==
    /\ op = "none"
    /\ res = NoValue
    /\ arg \in {[lead |-> lead, senses |-> senses, text |-> SenseText(lead, senses)] :
                    lead \in Leads, senses \in SeqsOf(WrittenSenses, 0, MaxSenses)}
    /\ PassIdle

ParseDefinitions ==
    /\ op = "none"
    /\ op' = "parse_definitions"
    /\ res' = parse_definitions(arg.text)
    /\ UNCHANGED <<arg, passVars>>

SenseNext ==
    ParseDefinitions

SpecSense ==
    SenseInit /\ [][SenseNext]_vars

-----------------------------------------------------------------------------
(* Inputs of separate_languages: at most MaxSentences pieces, each a body  *)
(* and what ends it: a sentence end (`.`, `!` or `?` and whitespace), a    *)
(* period without whitespace, or a comma and a space.                      *)

MaxSentences == 2

SentenceBodies ==
    { <<>>, <<"u0D15">>, <<"E", "y">>, <<"E", "y", "e">>,
      <<"a", " ", "u0D15", "u0D02">> }

SentenceEnds ==
    { <<".", " ">>, <<"!", " ">>, <<"?", " ", " ">>, <<".">>, <<",", " ">> }

Pieces ==
    [body : SentenceBodies, end : SentenceEnds]

RECURSIVE PiecesText(_)
PiecesText(pieces) ==
    IF pieces = <<>> THEN <<>>
    ELSE pieces[1].body \o pieces[1].end \o PiecesText(Tail(pieces))

LangInit ==
    /\ op = "none"
    /\ res = NoValue
    /\ arg \in {[pieces |-> pieces, text |-> PiecesText(pieces)] :
                    pieces \in SeqsOf(Pieces, 1, MaxSentences)}
    /\ PassIdle

SeparateLanguages ==
    /\ op = "none"
    /\ op' = "separate_languages"
    /\ res' = separate_languages(arg.text)
    /\ UNCHANGED <<arg, passVars>>

LangNext ==
    SeparateLanguages

SpecLang ==
    LangInit /\ [][LangNext]_vars

-----------------------------------------------------------------------------
(* Inputs of extract_cross_refs: at most MaxRefs fragments with a space    *)
(* between them, each a reference in one of the three notations or a word  *)
(* that is none.                                                           *)

MaxRefs == 3

\* type "" marks a fragment that is no reference.
RefFragments ==
    { [type |-> "synonym",  word |-> <<"u0D15">>,
       text |-> <<"(", "=", " ", "u0D15", ")">>],
      [type |-> "synonym",  word |-> <<"a", "b">>,
       text |-> <<"(", "=", "a", "b", ")">>],
      [type |-> "see_also", word |-> <<"u0D15">>,
       text |-> <<"s", "e", "e", " ", "u0D15">>],
      [type |-> "see_also", word |-> <<"b">>,
       text |-> <<"S", "E", "E", " ", " ", "b">>],
      [type |-> "antonym",  word |-> <<"u0D15">>,
       text |-> <<"o", "p", "p", ".", " ", "u0D15">>],
      [type |-> "",         word |-> <<>>,
       text |-> <<"x">>] }

RefsInit ==
    /\ op = "none"
    /\ res = NoValue
    /\ arg \in {[fragments |-> fragments,
                 text |-> join(<<" ">>, [i \in 1..Len(fragments) |-> fragments[i].text])] :
                    fragments \in SeqsOf(RefFragments, 1, MaxRefs)}
    /\ PassIdle

ExtractCrossRefs ==
    /\ op = "none"
    /\ op' = "extract_cross_refs"
    /\ res' = extract_cross_refs(arg.text)
    /\ UNCHANGED <<arg, passVars>>

RefsNext ==
    ExtractCrossRefs

SpecRefs ==
    RefsInit /\ [][RefsNext]_vars

-----------------------------------------------------------------------------
(* Inputs of extract_citations: texts put together from citation markers,  *)
(* markers without their period, a word and a space.                       *)

MaxCiteFrags == 3

CiteFragments ==
    { <<"T", "R", ".">>, <<"T", "R">>, <<"B", "h", "g", ".">>, <<"S", "i", " ", "P", "u", ".">>,
      <<"S", "i", "P", "u", ".">>, <<"x">>, <<" ">> }

CiteInit ==
    /\ op = "none"
    /\ res = NoValue
    /\ arg \in {[frags |-> fs, text |-> Concat(fs)] :
                    fs \in SeqsOf(CiteFragments, 0, MaxCiteFrags)}
    /\ PassIdle

ExtractCitations ==
    /\ op = "none"
    /\ op' = "extract_citations"
    /\ res' = extract_citations(arg.text)
    /\ UNCHANGED <<arg, passVars>>

CiteNext ==
    ExtractCitations

SpecCite ==
    CiteInit /\ [][CiteNext]_vars

-----------------------------------------------------------------------------
(* Inputs of the paragraph loop: normalized texts of the form headword,    *)
(* space, romanization, space, etymology marker, space, numbered senses.   *)

MaxHeadwordLen == 2

MaxRomanLen == 2

\* Malayalam letters A and KA, the virama, and the anusvara.
HeadwordChars ==
    {"u0D05", "u0D15", "u0D4D", "u0D02"}

Headwords ==
    {h \in SeqsOf(HeadwordChars, 1, MaxHeadwordLen) : h[1] \in {"u0D05", "u0D15"}}

\* a, and s with caron (as in the romanization "aksam" of the source's example).
RomanChars ==
    {"a", "u0161"}

Romanizations ==
    SeqsOf(RomanChars, 1, MaxRomanLen)

\* The tokens of the closed set, and two heads without one: no token at all,
\* and a token that is not of the set.
EtymologyMarkers ==
    EtymologyAlternatives \cup {<<"V", "1", ".">>, <<"V", "2", ".">>, <<"V", "3", ".">>}
        \cup {<<>>, <<"X", ".">>}

\* "1. Eye. 2. wheel." and "1. Foo 3. Bar", shortened.
EntrySenses ==
    { << [digits |-> <<"1">>, body |-> <<"E", "y", "e", ".">>],
         [digits |-> <<"2">>, body |-> <<"w", ".">>] >>,
      << [digits |-> <<"1">>, body |-> <<"F">>],
         [digits |-> <<"3">>, body |-> <<"B">>] >> }

EntryText(headword, roman, marker, senses) ==
    headword \o <<" ">> \o roman \o <<" ">> \o marker \o <<" ">> \o SenseText(<<>>, senses)

\* Heads within the classes of the head pattern, with bodies that the
\* numbered form does not cover: no numbered sense, a sense with an English
\* and a Malayalam fragment, a sense with a cross-reference, a sense too
\* short to keep anything, a body too short for an entry, two citations.
EntryBodies ==
    { [lead |-> <<"(", "o", "c", ")", " ", "E", "y", "e">>, senses |-> <<>>],
      [lead |-> <<>>,
       senses |-> << [digits |-> <<"1">>, body |-> <<"E", "y", "e", "s", ".", " ", "u0D15",
                                                     "u0D15", "u0D15", "u0D15", ".">>] >>],
      [lead |-> <<>>,
       senses |-> << [digits |-> <<"1">>, body |-> <<"s", "e", "e", " ", "a", "b", ".">>] >>],
      [lead |-> <<>>,
       senses |-> << [digits |-> <<"1">>, body |-> <<"a">>],
                     [digits |-> <<"2">>, body |-> <<"w", "h", "e", "e", "l">>] >>],
      [lead |-> <<>>, senses |-> <<>>],
      [lead |-> <<"B", "h", "g", ".", " ", "T", "R", ".", " ", "E", "y", "e",
                  "s">>, senses |-> <<>>] }

EntryTextWithLead(headword, roman, marker, lead, senses) ==
    headword \o <<" ">> \o roman \o <<" ">> \o marker \o <<" ">> \o SenseText(lead, senses)

EntryInit ==
    /\ op = "none"
    /\ res = NoValue
    /\ arg \in {[headword |-> h, roman |-> r, marker |-> m, lead |-> <<>>, senses |-> ss,
                 text |-> EntryText(h, r, m, ss)] :
                    h \in Headwords, r \in Romanizations, m \in EtymologyMarkers,
                    ss \in EntrySenses}
          \cup {[headword |-> <<"u0D05", "u0D15">>, roman |-> <<"a">>, marker |-> m,
                 lead |-> b.lead, senses |-> b.senses,
                 text |-> EntryTextWithLead(<<"u0D05", "u0D15">>, <<"a">>, m, b.lead, b.senses)] :
                    m \in {<<"S", ".">>, <<"T", "d", "b", "h", ".">>, <<>>},
                    b \in EntryBodies}
    /\ PassIdle

\* if text and self.looks_like_entry(text): entry = self.extract_entry(text, page_num)
ParseParagraph ==
    /\ op = "none"
    /\ op' = "parse_paragraph"
    /\ res' = parse_paragraph(arg.text, <<"2", "3">>)
    /\ UNCHANGED <<arg, passVars>>

\* DictpressExporter(entries, output_file).export(), for the entries parsed.
ExportGundert ==
    /\ op = "parse_paragraph"
    /\ res # None
    /\ op' = "export"
    /\ \E order \in Orderings(AllCitations(<<res>>)) :
          output_file' = Gundert_export(<<res>>, order)
    /\ UNCHANGED <<arg, res, readVars>>

EntryNext ==
    \/ ParseParagraph
    \/ ExportGundert

SpecEntry ==
    EntryInit /\ [][EntryNext]_vars

-----------------------------------------------------------------------------
(* GundertParser.parse: the loop over the scanned surfaces of the input.   *)
(* A surface is its page attribute n (None when absent) and the markup of  *)
(* its paragraphs.                                                         *)

MaxSurfaces == 2

\* Dictionary starts at page 23.
FirstPage == 23

\* int(page_num) succeeds: the text is a run of digits.
is_int(text) ==
    text # <<>> /\ \A i \in 1..Len(text) : text[i] \in Digit

\* surface.get('n'): None when the attribute is absent, else its text.
PageAttributes ==
    {None} \cup {[kind |-> "str", text |-> t] :
                    t \in {<<"x">>, <<"5">>, <<"2", "2">>, <<"2", "3">>,
                           <<"2", "4">>}}

\* No paragraph; one entry; a running header and an entry broken over a line.
SurfaceParagraphs ==
    { <<>>,
      << <<"<", "p", ">", "u0D05", "u0D15", " ", "a", " ", "S", ".", " ", "1",
           ".", " ", "E", "y", "e", ".", "<", "/", "p", ">">> >>,
      << <<"<", "p", ">", "A", "B", "<", "/", "p", ">">>, <<"<", "p", ">", "u0D05", "<", "l", "b", "/", ">",
                        "u0D15", " ", "a", " ", "1", ".", " ", "E", "y", "e",
                        "<", "/", "p", ">">> >> }

Surfaces ==
    {[n |-> n, p |-> p] : n \in PageAttributes, p \in SurfaceParagraphs}

ParseInit ==
    /\ FnInit
    /\ input_file \in SeqsOf(Surfaces, 0, MaxSurfaces)
    /\ line_number = 0
    /\ entries = <<>>
    /\ skipped_lines = <<>>
    /\ entries_with_unknown_pos = <<>>
    /\ output_file = <<>>
    /\ surface_number = 0
    /\ file_number = 0
    /\ raised = "none"

\* The entries of the paragraphs of one surface, in paragraph order.
surface_entries(surface, eof) ==
    SelectSeq([k \in 1..Len(surface.p) |->
                  parse_paragraph(clean_text(surface.p[k], eof),
                                  surface.n.text)],
              LAMBDA e : e # None)

\* One iteration of `for surface in soup.find_all('surface', {'type': 'scan'})`.
\* int(None) raises TypeError, which the `except ValueError` does not catch.
ParseSurface ==
    /\ raised = "none"
    /\ surface_number < Len(input_file)
    /\ surface_number' = surface_number + 1
    /\ LET surface == input_file[surface_number + 1]
       IN  IF surface.n = None
           THEN /\ raised' = "TypeError"
                /\ UNCHANGED entries
           ELSE IF ~is_int(surface.n.text)
           THEN UNCHANGED <<entries, raised>>
           ELSE IF int(surface.n.text) < FirstPage
           THEN UNCHANGED <<entries, raised>>
           ELSE /\ \E eof \in UnclosedTagAtEOF :
                      entries' = entries \o surface_entries(surface, eof)
                /\ UNCHANGED raised
    /\ UNCHANGED <<fnVars, input_file, line_number, skipped_lines,
                   entries_with_unknown_pos, output_file, file_number>>

ParseNext ==
    ParseSurface

SpecParse ==
    ParseInit /\ [][ParseNext]_vars

\* GundertParser.parse as one call over the surfaces of self.input_file:
\* what self.entries holds when the loop ends, and the exception that ended
\* it, if any.
RECURSIVE parse(_, _, _)
parse(self_entries, surfaces, eof) ==
    IF surfaces = <<>> THEN [entries |-> self_entries, raised |-> "none"]
    ELSE IF surfaces[1].n = None
    THEN [entries |-> self_entries, raised |-> "TypeError"]
    ELSE IF ~is_int(surfaces[1].n.text)
    THEN parse(self_entries, Tail(surfaces), eof)
    ELSE IF int(surfaces[1].n.text) < FirstPage
    THEN parse(self_entries, Tail(surfaces), eof)
    ELSE parse(self_entries \o surface_entries(surfaces[1], eof), Tail(surfaces), eof)

-----------------------------------------------------------------------------
(* Inputs of STVParser.parse_entry: <ar> elements with or without <k> and  *)
(* <def>, the <def> holding at most MaxDefChildren children.               *)

MaxDefChildren == 2

Leaf(tag, text) ==
    Element(tag, <<>>, text, <<>>, <<>>)

\* <k>: none, one with text, one without text, two.
KElements ==
    { <<>>,
      <<Leaf("k", <<"u0D15">>)>>,
      <<Leaf("k", <<" ">>)>>,
      <<Leaf("k", <<"u0D05", "u0D15">>), Leaf("k", <<"u0D15">>)>> }

\* Children of <def>: grammar, definition texts of one and of two
\* characters, a definition text with a line break inside, an explanation,
\* examples with and without type and original, a nested <def>,
\* cross-references with a known, an absent and an unknown type, etymology.
DefChildren ==
    { Leaf("gr", <<"n", ".">>),
      Leaf("deftext", <<"u0D15">>),
      Leaf("deftext", <<"u0D15", "u0D05">>),
      Element("deftext", <<>>, <<"u0D05", " ">>, <<Element("br", <<>>, <<>>, <<>>, <<"u0D15">>)>>, <<>>),
      Leaf("expl", <<"u0D05", "u0D05">>),
      Element("ex", [type |-> <<"p", "o", "e", "m">>], <<>>, <<Leaf("ex_orig", <<"u0D15", "u0D15">>)>>, <<>>),
      Element("ex", <<>>, <<>>, <<>>, <<>>),
      Element("def", <<>>, <<>>,
              <<Leaf("deftext", <<"u0D05", "u0D15">>),
                Element("ex", <<>>, <<>>, <<Leaf("ex_orig", <<"u0D15", "u0D05">>)>>, <<>>)>>, <<>>),
      Element("sr", <<>>, <<>>,
              <<Element("kref", [type |-> <<"s", "y", "n">>], <<"u0D05">>, <<>>, <<>>),
                Leaf("kref", <<"u0D15">>)>>, <<>>),
      Element("sr", <<>>, <<>>,
              <<Element("kref", [type |-> <<"x", "y", "z">>], <<"u0D05">>, <<>>, <<>>)>>, <<>>),
      Leaf("etm", <<"S", ".">>) }

DefElements ==
    {<<>>} \cup {<<Element("def", <<>>, <<>>, children, <<>>)>> :
                    children \in SeqsOf(DefChildren, 0, MaxDefChildren)}

STVInit ==
    /\ op = "none"
    /\ res = NoValue
    /\ arg \in {[ar |-> Element("ar", <<>>, <<>>, k \o d, <<>>)] :
                    k \in KElements, d \in DefElements}
    /\ PassIdle

\* entry = self.parse_entry(ar)
ParseEntry ==
    /\ op = "none"
    /\ op' = "parse_entry"
    /\ res' = parse_entry(arg.ar)
    /\ UNCHANGED <<arg, passVars>>

\* DictpressExporter(entries, output_file).export(), for the entries parsed.
ExportSTV ==
    /\ op = "parse_entry"
    /\ res # None
    /\ op' = "export"
    /\ output_file' = STV_export(<<res>>)
    /\ UNCHANGED <<arg, res, readVars>>

STVNext ==
    \/ ParseEntry
    \/ ExportSTV

SpecSTV ==
    STVInit /\ [][STVNext]_vars

-----------------------------------------------------------------------------
(* Inputs of the part-of-speech columns of the STV exporter: <ar> elements *)
(* whose <gr> is a key of pos_mapping, the same in capitals, a Malayalam   *)
(* word class, a marker of no class, or missing.                           *)

Grammars ==
    DOMAIN pos_mapping
        \cup { <<"N", ".">>, <<"u0D28", "u0D3E", "u0D2E", "u0D02">>, <<"x">> }

GrammarElements ==
    {<<>>} \cup {<<Leaf("gr", g)>> : g \in Grammars}

DefinitionTexts ==
    { <<>>,
      <<Leaf("deftext", <<"u0D15", "u0D05">>)>>,
      <<Leaf("deftext", <<"u0D15", "u0D05">>), Leaf("expl", <<"u0D05", "u0D05">>)>> }

GrammarInit ==
    /\ op = "none"
    /\ res = NoValue
    /\ arg \in {[ar |-> Element("ar", <<>>, <<>>,
                                 k \o <<Element("def", <<>>, <<>>, g \o d, <<>>)>>, <<>>)] :
                    k \in KElements \ {<<>>}, g \in GrammarElements,
                    d \in DefinitionTexts}
    /\ PassIdle

SpecGrammar ==
    GrammarInit /\ [][STVNext]_vars

-----------------------------------------------------------------------------
(* The run of stv_to_dictpress.py over the files a pattern matches: at     *)
(* most MaxFiles files, each unreadable, not well-formed, or a document    *)
(* with or without <meta_info>, <title> and <lexicon>; one named *.dtd.    *)

MaxFiles == 3

XmlPath == <<"a", ".", "x", "m", "l">>

DtdPath == <<"a", ".", "d", "t", "d">>

ArOf(k) ==
    Element("ar", <<>>, <<>>,
            <<Leaf("k", k),
              Element("def", <<>>, <<>>, <<Leaf("deftext", <<"u0D05">>)>>, <<>>)>>, <<>>)

TitledMeta ==
    Element("meta_info", <<>>, <<>>, <<Leaf("title", <<"T">>)>>, <<>>)

LexiconOf(ars) ==
    Element("lexicon", <<>>, <<>>, ars, <<>>)

RootOf(children) ==
    Element("stv", <<>>, <<>>, children, <<>>)

SourceFile(path, readable, well_formed, root) ==
    [path |-> path, readable |-> readable, well_formed |-> well_formed, root |-> root]

\* The <ar> without <k> of the first document gives no entry.
SourceFiles ==
    { SourceFile(XmlPath, TRUE, TRUE,
                 RootOf(<<TitledMeta,
                          LexiconOf(<<ArOf(<<"u0D15">>),
                                      Element("ar", <<>>, <<>>, <<>>, <<>>)>>)>>)),
      SourceFile(XmlPath, TRUE, TRUE, RootOf(<<LexiconOf(<<ArOf(<<"u0D19">>)>>)>>)),
      SourceFile(XmlPath, TRUE, TRUE, RootOf(<<TitledMeta, LexiconOf(<<>>)>>)),
      SourceFile(XmlPath, TRUE, TRUE, RootOf(<<TitledMeta>>)),
      SourceFile(XmlPath, TRUE, TRUE,
                 RootOf(<<Element("meta_info", <<>>, <<>>, <<>>, <<>>),
                          LexiconOf(<<ArOf(<<"u0D17">>)>>)>>)),
      SourceFile(XmlPath, TRUE, FALSE, RootOf(<<LexiconOf(<<ArOf(<<"u0D16">>)>>)>>)),
      SourceFile(XmlPath, FALSE, TRUE, RootOf(<<>>)),
      SourceFile(DtdPath, TRUE, TRUE, RootOf(<<LexiconOf(<<ArOf(<<"u0D1A">>)>>)>>)) }

\* input_file holds sorted(files); no file is read yet.
FilesInit ==
    /\ FnInit
    /\ input_file \in SeqsOf(SourceFiles, 0, MaxFiles)
    /\ line_number = 0
    /\ entries = <<>>
    /\ skipped_lines = <<>>
    /\ entries_with_unknown_pos = <<>>
    /\ output_file = <<>>
    /\ surface_number = 0
    /\ file_number = 0
    /\ raised = "none"

\* One iteration of `for filepath in sorted(files)`.
ParseFile ==
    /\ op \in {"none", "parse_file"}
    /\ file_number < Len(input_file)
    /\ file_number' = file_number + 1
    /\ op' = "parse_file"
    /\ LET file == input_file[file_number + 1]
       IN  IF is_dtd(file.path)
           THEN UNCHANGED <<entries, res>>
           ELSE /\ entries' = entries \o parse_file(file).entries
                /\ res' = parse_file(file).message
    /\ UNCHANGED <<arg, input_file, line_number, skipped_lines,
                   entries_with_unknown_pos, output_file, surface_number, raised>>

\* main: `if not entries: ... sys.exit(1)`.
ExitWithoutEntries ==
    /\ op \in {"none", "parse_file"}
    /\ file_number = Len(input_file)
    /\ entries = <<>>
    /\ op' = "exit"
    /\ raised' = "SystemExit(1)"
    /\ UNCHANGED <<arg, res, input_file, line_number, entries, skipped_lines,
                   entries_with_unknown_pos, output_file, surface_number, file_number>>

\* main: DictpressExporter(entries, output_file).export()
ExportEntries ==
    /\ op = "parse_file"
    /\ file_number = Len(input_file)
    /\ entries # <<>>
    /\ op' = "export"
    /\ output_file' = STV_export(entries)
    /\ UNCHANGED <<arg, res, readVars>>

FilesNext ==
    \/ ParseFile
    \/ ExitWithoutEntries
    \/ ExportEntries

SpecFiles ==
    FilesInit /\ [][FilesNext]_vars

-----------------------------------------------------------------------------
(* Calls of parse and of parse_files on one parser object: at most         *)
(* MaxCalls calls on a GundertParser constructed for a file of surfaces,   *)
(* or on an STVParser with the files each call's pattern matches.          *)

MaxCalls == 2

\* The files a pattern of one call matches, sorted.
CallBatches ==
    {files \in SeqsOf(SourceFiles, 0, 2) :
        \A i \in 1..Len(files) :
            /\ files[i].readable
            /\ files[i].path = DtdPath \/ parse_file(files[i]).entries # <<>>
                   \/ ~files[i].well_formed}

\* The surfaces of the file a GundertParser is constructed for.
CallSurfaces ==
    {surfaces \in SeqsOf(Surfaces, 0, 1) :
        \A i \in 1..Len(surfaces) :
            \/ surfaces[i].n = None
            \/ surfaces[i].n.text \in {<<"5">>, <<"2", "3">>}}

\* parser = STVParser(), or parser = GundertParser(input_file); res holds
\* what each call returned, in the order of the calls.
CallsInit ==
    /\ op = "none"
    /\ \/ arg = [parser |-> "STVParser", input_file |-> <<>>]
       \/ arg \in {[parser |-> "GundertParser", input_file |-> f] : f \in CallSurfaces}
    /\ res = <<>>
    /\ PassIdle

\* entries = parser.parse_files(input_pattern), the whole call.
CallParseFiles ==
    /\ arg.parser = "STVParser"
    /\ Len(res) < MaxCalls
    /\ \E files \in CallBatches :
           /\ input_file' = files
           /\ file_number' = Len(files)
           /\ entries' = parse_files_loop(entries, files)
           /\ res' = Append(res, parse_files(entries, files))
    /\ op' = "parse_files"
    /\ UNCHANGED <<arg, line_number, skipped_lines, entries_with_unknown_pos,
                   output_file, surface_number, raised>>

\* entries = parser.parse(), the whole call; nothing is returned when the
\* call is left by an exception.
CallParse ==
    /\ arg.parser = "GundertParser"
    /\ raised = "none"
    /\ Len(res) < MaxCalls
    /\ input_file' = arg.input_file
    /\ \E eof \in UnclosedTagAtEOF :
           LET call == parse(entries, arg.input_file, eof)
           IN  /\ entries' = call.entries
               /\ raised' = call.raised
               /\ res' = IF call.raised = "none" THEN Append(res, call.entries) ELSE res
    /\ surface_number' = Len(arg.input_file)
    /\ op' = "parse"
    /\ UNCHANGED <<arg, line_number, skipped_lines, entries_with_unknown_pos,
                   output_file, file_number>>

CallsNext ==
    \/ CallParseFiles
    \/ CallParse

SpecCalls ==
    CallsInit /\ [][CallsNext]_vars

-----------------------------------------------------------------------------
(* Inputs of STVParser.get_text: an element with text and at most          *)
(* MaxTextChildren children: line breaks, elements with text of their own  *)
(* (with and without blanks at its ends), an element with a line break     *)
(* inside; each child with or without tail text.                           *)

MaxTextChildren == 2

ElementTexts ==
    { <<>>, <<"u0D05">>, <<"u0D05", " ">> }

TailTexts ==
    { <<>>, <<"u0D15">> }

TextChildren ==
    {Element("br", <<>>, <<>>, <<>>, tail) : tail \in TailTexts}
        \cup {Element("b", <<>>, text, <<>>, tail) :
                  text \in {<<"u0D37">>, <<" ", "u0D37", " ">>}, tail \in TailTexts}
        \cup {Element("i", <<>>, <<"u0D05">>,
                      <<Element("br", <<>>, <<>>, <<>>, <<"u0D15">>)>>, <<>>)}

GetTextInit ==
    /\ op = "none"
    /\ res = NoValue
    /\ arg \in {[element |-> Element("deftext", <<>>, text, children, <<>>)] :
                    text \in ElementTexts,
                    children \in SeqsOf(TextChildren, 0, MaxTextChildren)}
    /\ PassIdle

\* text = self.get_text(deftext)
STVGetText ==
    /\ op = "none"
    /\ op' = "get_text"
    /\ res' = STV_get_text(arg.element)
    /\ UNCHANGED <<arg, passVars>>

GetTextNext ==
    STVGetText

SpecGetText ==
    GetTextInit /\ [][GetTextNext]_vars

-----------------------------------------------------------------------------
(* The pipeline of the separator-delimited dialect: preprocess_dictionary  *)
(* writes the cleaned line, convert_bailey_to_dictpress parses it.  The    *)
(* lines are `Head<SEP> pos<boundary>target.`: the separator is a comma, a *)
(* period, a semicolon or missing, the boundary a period and a space, a    *)
(* space alone or a comma and a space.                                     *)

PipeHeads ==
    {<<"I">>, <<"A", "b">>, <<"A", " ", "b">>, <<"A", "-", "b">>}

Separators ==
    {<<",">>, <<".">>, <<";">>, <<>>}

\* Every key of POS_MAPPING and two markers written without their spaces.
PipeMarkers ==
    DOMAIN POS_MAPPING \cup {<<"v", ".", "a">>, <<"s", ".", "p", "l">>}

Boundaries ==
    {<<".", " ">>, <<" ">>, <<",", " ">>}

PipeTargets ==
    {<<"u0D15">>, <<"u0D15", ",", " ", "u0D15">>}

PipeLine(head, sep, pos, boundary, target) ==
    head \o sep \o <<" ">> \o pos \o boundary \o target \o <<".">>

PipeLines ==
    {[head |-> head, sep |-> sep, pos |-> pos,
      boundary |-> boundary, target |-> target,
      line |-> PipeLine(head, sep, pos, boundary, target)] :
         head \in PipeHeads, sep \in Separators,
         pos \in PipeMarkers, boundary \in Boundaries,
         target \in PipeTargets}

PipeInit ==
    /\ op = "none"
    /\ res = NoValue
    /\ arg \in PipeLines
    /\ PassIdle

\* cleaned = preprocess_line(line, stats); f_out.write(cleaned + '\n')
PreprocessLine ==
    /\ op = "none"
    /\ op' = "preprocess_line"
    /\ output_file' = <<preprocess_line(arg.line) \o NL>>
    /\ UNCHANGED <<arg, res, readVars>>

\* entry = parse_entry_line(line, line_number), on the cleaned line.
ParseCleanedLine ==
    /\ op = "preprocess_line"
    /\ op' = "parse_entry_line"
    /\ res' = parse_entry_line(output_file[1], 1)
    /\ UNCHANGED <<arg, passVars>>

PipeNext ==
    PreprocessLine \/ ParseCleanedLine

SpecPipe ==
    PipeInit /\ [][PipeNext]_vars

(* preprocess_dictionary run on its own output: the lines of the pipeline, *)
(* a blank line, a line of blanks, a section header, and a line whose      *)
(* grammar marker is written in capitals.                                  *)

OtherLines ==
    { <<>>, <<" ", " ">>, <<"A", "B", "D">>,
      <<"A", "b", ",", " ", "V", ".", " ", "A", " ", "u0D15", ".">> }

PassesInit ==
    /\ op = "none"
    /\ res = NoValue
    /\ arg \in PipeLines \cup {[line |-> l] : l \in OtherLines}
    /\ PassIdle

\* line = line.rstrip('\n\r')
rstrip_newline(line) ==
    LET keep == {i \in 1..Len(line) : line[i] \notin {"\n", "\r"}}
    IN  IF keep = {} THEN <<>> ELSE SubSeq(line, 1, Max(keep))

\* The second run: the line written by the first run is read, cleaned and
\* written.
PreprocessCleanedLine ==
    /\ op = "preprocess_line"
    /\ op' = "preprocess_cleaned_line"
    /\ output_file' = Append(output_file,
                             preprocess_line(rstrip_newline(output_file[1])) \o NL)
    /\ UNCHANGED <<arg, res, readVars>>

PassesNext ==
    PreprocessLine \/ PreprocessCleanedLine

SpecPasses ==
    PassesInit /\ [][PassesNext]_vars

-----------------------------------------------------------------------------
(* The two markup converters side by side: a paragraph of the Gundert      *)
(* source or an <ar> element of the STV source, parsed and exported.       *)

ConvertInit ==
    EntryInit \/ STVInit

ConvertNext ==
    \/ "text" \in DOMAIN arg /\ ParseParagraph
    \/ "text" \in DOMAIN arg /\ ExportGundert
    \/ "ar" \in DOMAIN arg /\ ParseEntry
    \/ "ar" \in DOMAIN arg /\ ExportSTV

SpecConvert ==
    ConvertInit /\ [][ConvertNext]_vars

-----------------------------------------------------------------------------
(* The two head syntaxes side by side: a line of the separator-delimited   *)
(* dialect or a paragraph of the positional one.                           *)

HeadInit ==
    LineInit \/ EntryInit

HeadNext ==
    \/ "line" \in DOMAIN arg /\ ParseEntryLine
    \/ "text" \in DOMAIN arg /\ ParseParagraph

SpecHead ==
    HeadInit /\ [][HeadNext]_vars

-----------------------------------------------------------------------------
(* Properties of bailey_to_dictpress.py.                                   *)

Parsed ==
    op = "parse_entry_line"

\* C1 as stated: every line `Head, pos. target.` (Head without comma, target
\* beginning with a Malayalam character) yields an entry with headword Head,
\* raw grammar marker pos and definitions target.
C1_EveryFormLineParses ==
    Parsed =>
        /\ res.kind = "BaileyEntry"
        /\ res.headword = arg.head
        /\ res.pos = arg.pos
        /\ res.definitions = arg.target

\* C1 as amended: the same, for the lines that are not entirely upper-case
\* and whose marker pos holds no Malayalam character.
C1_FormLineParses ==
    (Parsed /\ ~isupper(arg.line) /\ ~HasMalayalam(arg.pos)) =>
        /\ res.kind = "BaileyEntry"
        /\ res.headword = arg.head
        /\ res.pos = arg.pos
        /\ res.definitions = arg.target

C1_Witness ==
    /\ Parsed
    /\ arg.head = <<"A", "b", "b">>
    /\ arg.pos = <<"v", ".", " ", "a">>
    /\ arg.target = <<"u0D15", ",">>
    /\ res.kind = "BaileyEntry"
    /\ res.definitions = <<"u0D15", ",">>

\* C10: the canonical part of speech of an entry parsed from a line is
\* POS_MAPPING[pos] when the marker pos of the line is a key of the table,
\* and the raw marker otherwise.
C10_CanonicalPos ==
    Parsed =>
        /\ arg.pos \in DOMAIN POS_MAPPING =>
              /\ res.kind = "BaileyEntry"
              /\ res.pos_normalized = POS_MAPPING[arg.pos]
        /\ (res.kind = "BaileyEntry" /\ res.pos \in DOMAIN POS_MAPPING) =>
              res.pos_normalized = POS_MAPPING[res.pos]
        /\ (res.kind = "BaileyEntry" /\ res.pos \notin DOMAIN POS_MAPPING) =>
              res.pos_normalized = res.pos

C10_Witness ==
    /\ Parsed
    /\ arg.pos = <<"v", ".", " ", "a">>
    /\ res.kind = "BaileyEntry"
    /\ res.pos_normalized =
          <<"v", "e", "r", "b", "-", "t", "r", "a", "n", "s", "i", "t", "i", "v", "e">>

BlankOrUpper(raw) ==
    strip(raw) = <<>> \/ isupper(strip(raw))

EntryCount(n) ==
    Cardinality({i \in 1..Len(entries) : entries[i].line_number = n})

SkipCount(n) ==
    Cardinality({i \in 1..Len(skipped_lines) : skipped_lines[i][1] = n})

\* C3: every line read is in exactly one class: it gave one entry; it is
\* blank or upper-case, gave no entry and is not in the skip tally; it was
\* rejected, gave no entry and is in the skip tally once.  So entries +
\* skipped + blank/header lines = lines read.
C3_ThreeClasses ==
    /\ \A n \in 1..line_number :
          \/ EntryCount(n) = 1 /\ SkipCount(n) = 0 /\ ~BlankOrUpper(input_file[n])
          \/ EntryCount(n) = 0 /\ SkipCount(n) = 0 /\ BlankOrUpper(input_file[n])
          \/ EntryCount(n) = 0 /\ SkipCount(n) = 1 /\ ~BlankOrUpper(input_file[n])
    /\ Len(entries) + Len(skipped_lines)
          + Cardinality({n \in 1..line_number : BlankOrUpper(input_file[n])})
       = line_number

C3_Witness ==
    /\ line_number = 3
    /\ input_file[1] = <<"A", "B", "D">> \o NL
    /\ Len(entries) = 1
    /\ Len(skipped_lines) = 1

-----------------------------------------------------------------------------
(* Properties of GundertParser.clean_text.                                 *)

\* C4: the normalizer is idempotent: clean_text(clean_text(x)) = clean_text(x)
\* (stated for the builds that keep an unclosed tag as text; on the others
\* shorter inputs break it as well).
C4_Idempotent ==
    (op = "clean_text_again" /\ arg.build = "text") => res.second = res.first

\* Places of the input where a line-break marker stands between two letters.
BrokenWords ==
    {k \in 2..(Len(arg.frags) - 1) :
        /\ arg.frags[k] \in LineBreakMarkers
        /\ arg.frags[k - 1] \in LetterFrags
        /\ arg.frags[k + 1] \in LetterFrags}

\* C5: a line-break marker is removed and nothing is put in its place: the
\* letters on its two sides are adjacent in the output, and a text of letters
\* and markers alone comes out as its letters, in order.
C5_LineBreakRejoins ==
    op = "clean_text" =>
        /\ \A k \in BrokenWords :
              IsSubstring(arg.frags[k - 1] \o arg.frags[k + 1], res)
        /\ (\A k \in 1..Len(arg.frags) : arg.frags[k] \in LetterFrags \cup LineBreakMarkers)
              => res = Concat(SelectSeq(arg.frags, LAMBDA f : f \in LetterFrags))

C5_Witness ==
    /\ op = "clean_text"
    /\ arg.frags = <<<<"u0D15">>, LB_PAIR, <<"b">>>>
    /\ res = <<"u0D15", "b">>

-----------------------------------------------------------------------------
(* Properties of the entry parser of GundertParser.                        *)

SenseNumbers(definitions) ==
    [i \in 1..Len(definitions) |-> definitions[i].sense]

WrittenNumbers(senses) ==
    [i \in 1..Len(senses) |-> int(senses[i].digits)]

\* C2: a unit of the form headword, romanization, etymology marker, numbered
\* senses is accepted and gives one entry whose headword is the whole
\* Malayalam run, whose etymology is the canonical name of the marker and
\* whose senses are the numbered ones.
C2_HeadLineParses ==
    (op = "parse_paragraph" /\ arg.lead = <<>> /\ arg.senses # <<>>
        /\ arg.marker # <<"X", ".">>) =>
        /\ res.kind = "entry"
        /\ res.malayalam = arg.headword
        /\ arg.marker \in DOMAIN etymology_map => res.etymology = etymology_map[arg.marker]
        /\ SenseNumbers(res.definitions) = WrittenNumbers(arg.senses)

\* The written markers that re.split finds: the first, and every later one
\* that has text or an unmatched marker between it and the marker before
\* (a marker takes the whitespace after it, which the next one would need).
RECURSIVE IsOccurrence(_, _)
IsOccurrence(senses, k) ==
    \/ k = 1
    \/ senses[k - 1].body # <<>>
    \/ ~IsOccurrence(senses, k - 1)

Occurrences(senses) ==
    SelectSeq([k \in 1..Len(senses) |-> k], LAMBDA k : IsOccurrence(senses, k))

\* C6: one numbered sense for each occurrence of the marker pattern, in
\* order, numbered by the digits as written (gaps and duplicates kept), and
\* the marker's own text in no sense body.
C6_OneSensePerMarker ==
    op = "parse_definitions" =>
        LET occ == Occurrences(arg.senses)
            num == IF strip(arg.lead) # <<>> /\ strip(arg.lead)[1] # "("
                   THEN Tail(res) ELSE res
        IN  /\ Len(num) = Len(occ)
            /\ \A i \in 1..Len(occ) :
                  /\ num[i].sense = int(arg.senses[occ[i]].digits)
                  /\ (occ[i] = Len(arg.senses) \/ IsOccurrence(arg.senses, occ[i] + 1))
                        => num[i].raw = strip(arg.senses[occ[i]].body)

C6_Witness ==
    /\ op = "parse_definitions"
    /\ arg.text = <<"1", ".", " ", "F", " ", "3", ".", " ", "F", ".", " ", "G">>
    /\ SenseNumbers(res) = <<1, 3>>
    /\ res[1].raw = <<"F">>
    /\ res[2].raw = <<"F", ".", " ", "G">>

\* C7: a remainder without any numeric sense marker gives exactly one sense,
\* unnumbered, whose raw text is the whole remainder (remainders as
\* extract_entry passes them: three characters or more after trimming).
C7_NoMarkerOneSense ==
    (op = "parse_definitions" /\ arg.senses = <<>> /\ Len(strip(arg.text)) >= 3) =>
        /\ Len(res) = 1
        /\ res[1].sense = 0
        /\ res[1].raw = strip(arg.text)

\* C8: the text before the first marker becomes a sense numbered 0, placed
\* first, exactly when it is non-empty after trimming and does not begin
\* with an open parenthesis; otherwise there is no lead-in sense.
C8_LeadInSense ==
    (op = "parse_definitions" /\ arg.senses # <<>>) =>
        IF strip(arg.lead) # <<>> /\ strip(arg.lead)[1] # "("
        THEN /\ Len(res) = Len(Occurrences(arg.senses)) + 1
             /\ res[1].sense = 0
             /\ res[1].raw = strip(arg.lead)
             /\ \A i \in 2..Len(res) : res[i].sense # 0
        ELSE /\ Len(res) = Len(Occurrences(arg.senses))
             /\ \A i \in 1..Len(res) : res[i].sense # 0

C8_Witness ==
    /\ op = "parse_definitions"
    /\ arg.lead = <<"E", " ", "(">>
    /\ Len(arg.senses) = 2
    /\ Len(res) = 3
    /\ res[1].sense = 0

CitationToken(marker) ==
    SelectSeq(marker, LAMBDA c : c # ".")

\* C9: the citations are without duplicates; a marker of the list is in
\* them (less its period) exactly when it is a substring of the text, and a
\* text that holds one marker twice gives it once.
C9_Citations ==
    op = "extract_citations" =>
        /\ \A m \in Range(citation_markers) :
              CitationToken(m) \in res <=> IsSubstring(m, arg.text)
        /\ \A c \in res : \E m \in Range(citation_markers) : c = CitationToken(m)
        /\ \A m \in Range(citation_markers) :
              (Len(arg.frags) >= 2 /\ \A k \in 1..Len(arg.frags) : arg.frags[k] \in {m, <<" ">>})
                  => Cardinality(res) <= 1

C9_Witness ==
    /\ op = "extract_citations"
    /\ arg.frags = << <<"T", "R", ".">>, <<" ">>, <<"T", "R", ".">> >>
    /\ res = {<<"T", "R">>}

-----------------------------------------------------------------------------
(* Markers without a mapping.                                              *)

\* A line that parse_entry_line splits as written (see C1).
PlainLine ==
    ~isupper(arg.line) /\ ~HasMalayalam(arg.pos)

\* A paragraph whose headword and romanization are within the classes of
\* the head pattern, whose marker is a token of its closed set and whose
\* body has the three characters an entry needs.
PlainHead ==
    /\ \A i \in 1..Len(arg.headword) : arg.headword[i] \in HeadwordClass
    /\ \A i \in 1..Len(arg.roman) : arg.roman[i] \in RomanClass
    /\ arg.marker \in EtymologyMarkers \ {<<>>, <<"X", ".">>}
    /\ Len(strip(SenseText(arg.lead, arg.senses))) >= 3

\* C11 as stated: in both head syntaxes a marker without an entry in its
\* table is kept as the canonical tag of the entry, and the entry is emitted.
C11_UnmappedVerbatim ==
    /\ (op = "parse_entry_line" /\ PlainLine /\ arg.pos \notin DOMAIN POS_MAPPING) =>
           /\ res.kind = "BaileyEntry"
           /\ res.pos_normalized = arg.pos
    /\ (op = "parse_paragraph" /\ PlainHead /\ arg.marker \notin DOMAIN etymology_map) =>
           /\ res.kind = "entry"
           /\ res.etymology = arg.marker

\* C11 as amended: the entry is emitted in both syntaxes; the canonical
\* part of speech of a Bailey entry is the raw marker, while a Gundert entry
\* keeps the raw marker in etymology_marker and has the empty canonical
\* etymology.
C11_UnmappedKept ==
    /\ (op = "parse_entry_line" /\ PlainLine /\ arg.pos \notin DOMAIN POS_MAPPING) =>
           /\ res.kind = "BaileyEntry"
           /\ res.pos = arg.pos
           /\ res.pos_normalized = arg.pos
    /\ (op = "parse_paragraph" /\ PlainHead /\ arg.marker \notin DOMAIN etymology_map) =>
           /\ res.kind = "entry"
           /\ res.etymology_marker = arg.marker
           /\ res.etymology = <<>>

C11_Witness ==
    /\ op = "parse_paragraph"
    /\ PlainHead
    /\ arg.marker = <<"T", "d", "b", "h", ".">>
    /\ res.kind = "entry"
    /\ res.etymology_marker = arg.marker
    /\ res.etymology = <<>>

\* C12: the canonical etymology of an entry is the language name of the
\* captured marker, and is empty when no marker was captured or the
\* captured marker has no entry in etymology_map.
C12_CanonicalEtymology ==
    (op = "parse_paragraph" /\ res.kind = "entry") =>
        /\ res.etymology =
               IF res.etymology_marker \in DOMAIN etymology_map
               THEN etymology_map[res.etymology_marker]
               ELSE <<>>
        /\ PlainHead =>
               /\ res.etymology_marker = arg.marker
               /\ arg.marker \in DOMAIN etymology_map =>
                      res.etymology = etymology_map[arg.marker]
        /\ arg.marker \in {<<>>, <<"X", ".">>} =>
               /\ res.etymology_marker = <<>>
               /\ res.etymology = <<>>

C12_Witness ==
    /\ op = "parse_paragraph"
    /\ res.kind = "entry"
    /\ arg.marker = <<"V", "3", ".">>
    /\ res.etymology_marker = <<"V", "3", ".">>
    /\ res.etymology = <<>>

-----------------------------------------------------------------------------
(* The entries and the rows of convert_bailey_to_dictpress.                *)

\* The entries of the lines 1..n that parse_entry_line accepts, in line order.
AcceptedUpTo(n) ==
    SelectSeq([k \in 1..n |-> parse_entry_line(input_file[k], k)],
              LAMBDA e : e # None)

\* C13: no entry with an empty headword is emitted: none is among the
\* entries and no row of the output file has an empty headword cell.
C13_NoEmptyHeadword ==
    /\ \A i \in 1..Len(entries) : entries[i].headword # <<>>
    /\ \A i \in 1..Len(output_file) : output_file[i][1] # <<>>

\* The conversion has ended: the input is read and the loop over the
\* entries has written its last row.
ConversionEnded ==
    /\ line_number = Len(input_file)
    /\ output_file # <<>>
    /\ Len(output_file) - 1 >= Len(entries)

ExpectedRows ==
    LET accepted == AcceptedUpTo(Len(input_file))
    IN  <<csv_header>> \o [i \in 1..Len(accepted) |-> to_dictpress_row(accepted[i])]

\* C17: the output file is written after the input is read; it holds the
\* header row and then one row per line that parse_entry_line accepts, in
\* the order of the lines, and when the conversion ends no row is missing.
C17_RowsInLineOrder ==
    /\ output_file # <<>> => line_number = Len(input_file)
    /\ Len(output_file) <= Len(ExpectedRows)
    /\ output_file = SubSeq(ExpectedRows, 1, Len(output_file))
    /\ ConversionEnded => output_file = ExpectedRows

C17_Witness ==
    /\ Len(input_file) = 3
    /\ parse_entry_line(input_file[1], 1) # None
    /\ parse_entry_line(input_file[2], 2) = None
    /\ parse_entry_line(input_file[3], 3) # None
    /\ Len(output_file) = 3
    /\ output_file[2] # output_file[3]
    /\ output_file[2][1] = parse_entry_line(input_file[1], 1).headword
    /\ output_file[3][1] = parse_entry_line(input_file[3], 3).headword

\* The reports expected after n lines: line number, headword and marker of
\* the accepted lines whose marker is non-empty and not a key of POS_MAPPING.
ExpectedUnknownPos(n) ==
    LET unmapped == SelectSeq(AcceptedUpTo(n),
                              LAMBDA e : e.pos # <<>> /\ e.pos \notin DOMAIN POS_MAPPING)
    IN  [i \in 1..Len(unmapped) |->
            <<unmapped[i].line_number, unmapped[i].headword, unmapped[i].pos>>]

\* C20: the entries reported with an unmapped part of speech are exactly
\* the entries whose raw marker is non-empty and not a key of POS_MAPPING,
\* and every reported entry is among the entries (and gets its row).
C20_UnknownPosReported ==
    /\ entries_with_unknown_pos = ExpectedUnknownPos(line_number)
    /\ \A i \in 1..Len(entries_with_unknown_pos) :
          \E j \in 1..Len(entries) :
              /\ entries[j].line_number = entries_with_unknown_pos[i][1]
              /\ entries[j].pos = entries_with_unknown_pos[i][3]
              /\ ConversionEnded => output_file[j + 1] = to_dictpress_row(entries[j])

C20_Witness ==
    /\ Len(entries) = 3
    /\ Len(entries_with_unknown_pos) = 1
    /\ \E i \in 1..3 : entries[i].pos = <<>>
    /\ \E i \in 1..3 : entries[i].pos \in DOMAIN POS_MAPPING
    /\ \E i \in 1..3 : entries[i].pos = entries_with_unknown_pos[1][3]
    /\ Len(output_file) = 4

-----------------------------------------------------------------------------
(* The content of the senses of parse_definitions.                         *)

\* None of the four content fields of the sense holds anything.
IsEmptySense(definition) ==
    /\ definition.english = <<>>
    /\ definition.malayalam = <<>>
    /\ definition.citations = {}
    /\ definition.cross_refs = <<>>

\* C14: every sense of the sense list has a non-empty field among english,
\* malayalam, citations and cross_refs (a sense without any is dropped).
C14_NoEmptySense ==
    op = "parse_definitions" =>
        \A i \in 1..Len(res) : ~IsEmptySense(res[i])

-----------------------------------------------------------------------------
(* The entries and the rows of the two markup converters.                  *)

\* An entry of the Gundert paragraph was returned by the parser.
GundertEmitted ==
    "text" \in DOMAIN arg /\ op \in {"parse_paragraph", "export"} /\ res # None

\* An entry of the STV element was returned by the parser.
STVEmitted ==
    "ar" \in DOMAIN arg /\ op \in {"parse_entry", "export"} /\ res # None

\* C15: an entry whose sense list is empty and that has no cross-reference
\* (and no citation) is discarded: none is returned by extract_entry or
\* parse_entry, and none gets a row in the output.
C15_EmptyEntryDiscarded ==
    /\ GundertEmitted => res.definitions # <<>>
    /\ STVEmitted => (res.definitions # <<>> \/ res.cross_refs # <<>>)

RECURSIVE SenseCrossRefs(_)
\* The number of cross-references attached to the senses.
SenseCrossRefs(definitions) ==
    IF definitions = <<>> THEN 0
    ELSE Len(Head(definitions).cross_refs) + SenseCrossRefs(Tail(definitions))

\* The senses and cross-references attached to the entry.
Attached ==
    IF "ar" \in DOMAIN arg
    THEN Len(res.definitions) + Len(res.cross_refs)
    ELSE Len(res.definitions) + SenseCrossRefs(res.definitions)

\* C18: the exporter writes, for the entry, one main row `-` and then one
\* row `^` per sense and per cross-reference of the entry.
C18_RowPerSenseAndRef ==
    op = "export" =>
        /\ output_file[1][1] = <<"-">>
        /\ \A i \in 2..Len(output_file) : output_file[i][1] = <<"^">>
        /\ Len(output_file) - 1 = Attached

-----------------------------------------------------------------------------
(* The batch of GundertParser.parse.                                       *)

\* The entries of the surfaces 1..n whose page is a number from FirstPage on.
ExpectedEntries(n) ==
    join(<<>>, [k \in 1..n |->
                   IF input_file[k].n # None /\ is_int(input_file[k].n.text)
                          /\ int(input_file[k].n.text) >= FirstPage
                   THEN surface_entries(input_file[k], "text")
                   ELSE <<>>])

\* C16: no unit aborts the batch: no exception leaves parse(), a surface
\* whose page is absent, not a number or below FirstPage is skipped, and the
\* entries of every other surface read so far are collected.
C16_BatchNeverAborts ==
    /\ raised = "none"
    /\ entries = ExpectedEntries(surface_number)

-----------------------------------------------------------------------------
(* The separator after the headword, through preprocess_line.              *)

\* The cleaned line has no comma, or no period-before-Malayalam boundary
\* after its first comma.
NoSeparatorOrBoundary ==
    LET line == strip(output_file[1])
    IN  \/ find(line, ",") = 0
        \/ pos_end_match(strip(SubSeq(line, find(line, ",") + 1, Len(line)))) = 0

\* C19: a line `Head<SEP> pos. target` whose separator is a comma, a period
\* or a semicolon is accepted after preprocess_line with the headword Head; a
\* line that reaches parse_entry_line without a comma or without a
\* period-before-Malayalam boundary is rejected.
C19_SeparatorRecovered ==
    op = "parse_entry_line" =>
        /\ (arg.sep # <<>> /\ arg.boundary = <<".", " ">>) =>
               (res # None /\ res.headword = arg.head)
        /\ NoSeparatorOrBoundary => res = None

-----------------------------------------------------------------------------
(* The fragments of separate_languages.                                    *)

\* The end of a piece is a sentence end: `.`, `!` or `?` and whitespace.
IsSentenceEnd(end) ==
    Len(end) >= 2 /\ end[1] \in {".", "!", "?"} /\ end[2] \in Whitespace

RECURSIVE FragmentsOf(_, _)
\* The fragments the pieces were written as: a piece that ends a sentence
\* closes the fragment, without its end; any other piece goes on into the
\* next one; what is left after the last sentence end is the last fragment.
FragmentsOf(pieces, open) ==
    IF pieces = <<>> THEN <<open>>
    ELSE IF IsSentenceEnd(pieces[1].end)
    THEN <<open \o pieces[1].body>> \o FragmentsOf(Tail(pieces), <<>>)
    ELSE FragmentsOf(Tail(pieces), open \o pieces[1].body \o pieces[1].end)

-----------------------------------------------------------------------------
(* The references of extract_cross_refs.                                   *)

\* The references the text was written with, in their order in the text.
WrittenRefs ==
    LET refs == SelectSeq(arg.fragments, LAMBDA f : f.type # "")
    IN  [i \in 1..Len(refs) |-> [type |-> refs[i].type, word |-> refs[i].word]]

\* The written references of one kind, in their order in the text.
WrittenRefsOf(type) ==
    SelectSeq(WrittenRefs, LAMBDA r : r.type = type)

\* C24 as stated: every match of the three patterns is kept, and the
\* references stand in their order of appearance in the sense text.
C24_RefsInOrderOfAppearance ==
    op = "extract_cross_refs" => res = WrittenRefs

\* C24, amended: every match of the three patterns is kept; the references
\* are grouped by kind (synonym, then see_also, then antonym), and stand in
\* their order of appearance within each kind.
C24_RefsByKindThenAppearance ==
    op = "extract_cross_refs" =>
        res = WrittenRefsOf("synonym") \o WrittenRefsOf("see_also")
                  \o WrittenRefsOf("antonym")

\* Two references of one kind after a reference of a later kind.
C24_Witness ==
    /\ op = "extract_cross_refs"
    /\ Len(res) = 3
    /\ Len(WrittenRefsOf("synonym")) = 2
    /\ WrittenRefs[1].type = "antonym"
    /\ res[1] # res[2]

-----------------------------------------------------------------------------
(* The relation of the cross-references of the STV converter.              *)

\* The relation markers of <kref> with a label of their own.
RecognizedRelations ==
    DOMAIN ref_type_labels

\* The row written for the i-th cross-reference of the exported entry: the
\* cross-reference rows are the last rows of the entry.
CrossRefRow(i) ==
    output_file[Len(output_file) - Len(res.cross_refs) + i]

\* The content `[label] word` of the `related` relation.
RelatedContent(word) ==
    <<"[">> \o ref_type_labels[<<"r", "e", "l">>] \o <<"]", " ">> \o word

\* C25: a cross-reference whose relation marker is absent or not recognized
\* is treated as `related`: parse_entry gives it the type rel, and export
\* writes it with the label of rel.
C25_UnknownRelationIsRelated ==
    /\ (op = "parse_entry" /\ res # None) =>
           \A i \in 1..Len(res.cross_refs) :
               res.cross_refs[i].type \in RecognizedRelations
    /\ op = "export" =>
           \A i \in 1..Len(res.cross_refs) :
               res.cross_refs[i].type \notin
                       RecognizedRelations \ {<<"r", "e", "l">>}
                   => CrossRefRow(i)[3] = RelatedContent(res.cross_refs[i].word)

-----------------------------------------------------------------------------
(* The order of the definition items of the STV converter.                 *)

\* The items one child of a definition block stands for.
ItemsOfChild(c) ==
    CASE c.tag = "deftext" -> STV_text_items(<<c>>, "definition")
      [] c.tag = "expl"    -> STV_text_items(<<c>>, "explanation")
      [] c.tag = "ex"      -> STV_example_items(<<c>>)
      [] OTHER             -> <<>>

\* The items of a definition block in their order of appearance: those of
\* each child and, for a nested sense block, those of its children.
ItemsInOrder(def_element) ==
    join(<<>>, [i \in 1..Len(def_element.children) |->
        LET c == def_element.children[i]
        IN  IF c.tag = "def"
            THEN join(<<>>, [j \in 1..Len(c.children) |-> ItemsOfChild(c.children[j])])
            ELSE ItemsOfChild(c)])

\* The items of the <def> of the entry parsed, in their order of appearance.
WrittenItems ==
    IF Element_find(arg.ar, "def") = None THEN <<>>
    ELSE ItemsInOrder(Element_find(arg.ar, "def"))

\* C26: the definition items of an STV entry are collected, and their rows
\* written, in their order of appearance in the source entry.
C26_ItemsInOrderOfAppearance ==
    /\ (op = "parse_entry" /\ res # None) => res.definitions = WrittenItems
    /\ op = "export" =>
           SubSeq(output_file, 2, Len(output_file) - Len(res.cross_refs))
               = STV_definition_rows([res EXCEPT !.definitions = WrittenItems])

-----------------------------------------------------------------------------
(* The text of an element of the STV source.                               *)

RECURSIVE CharacterData(_)
\* The character data of an element and its descendants in document order:
\* its text, then for each child the child's character data and its tail.
CharacterData(element) ==
    element.text
        \o join(<<>>, [i \in 1..Len(element.children) |->
                          CharacterData(element.children[i])
                              \o element.children[i].tail])

\* C27: get_text returns the character data of the element and all its
\* descendants in document order, nothing added for a line-break element and
\* nothing lost of a nested element, trimmed at the two ends of the result.
C27_TextIsCharacterData ==
    op = "get_text" => res = strip(CharacterData(arg.element))

-----------------------------------------------------------------------------
(* The part of speech on the rows of the STV exporter.                     *)

\* The tags every main row carries.
SourceTags ==
    <<"s", "t", "v", "|", "s", "a", "b", "d", "a", "t", "h", "a", "r", "a",
      "v", "a", "l", "i">>

\* The word class a part of speech of pos_mapping belongs to.
WordClassOf(pos) ==
    IF pos = <<"t", "r", "a", "n", "s", "i", "t", "i", "v", "e", "-", "v", "e", "r", "b">>
    THEN <<"v", "e", "r", "b">>
    ELSE pos

\* C30: for a grammar marker that is a key of pos_mapping the main row
\* carries at most one of the tags noun, verb, adjective, and a tag it
\* carries names the word class of the part of speech written on the
\* definition rows, which is pos_mapping[grammar].
C30_TagAgreesWithPos ==
    (op = "export" /\ res.grammar \in DOMAIN pos_mapping) =>
        /\ \/ output_file[1][8] = SourceTags
           \/ output_file[1][8]
                  = SourceTags \o <<"|">> \o WordClassOf(pos_mapping[res.grammar])
        /\ \A i \in 2..(Len(output_file) - Len(res.cross_refs)) :
               output_file[i][10] = pos_mapping[res.grammar]

-----------------------------------------------------------------------------
(* preprocess_line before parse_entry_line, and applied twice.             *)

\* C29: when parse_entry_line accepts a line with a grammar marker that is a
\* key of POS_MAPPING, it accepts the line preprocess_line makes of it, with
\* the same headword and a marker that is a key with the same canonical tag.
C29_PosKeptByPreprocessing ==
    op = "parse_entry_line" =>
        LET entry == parse_entry_line(arg.line, 1)
        IN  (entry # None /\ entry.pos \in DOMAIN POS_MAPPING) =>
                /\ res # None
                /\ res.headword = entry.headword
                /\ res.pos \in DOMAIN POS_MAPPING
                /\ POS_MAPPING[res.pos] = POS_MAPPING[entry.pos]

\* C28: a second pass of preprocess_line returns the result of the first
\* unchanged, and a blank or all-upper-case line is unchanged by every pass.
C28_PreprocessIdempotent ==
    /\ Len(output_file) = 2 => output_file[2] = output_file[1]
    /\ (strip(arg.line) = <<>> \/ isupper(strip(arg.line))) =>
           \A i \in 1..Len(output_file) : output_file[i] = arg.line \o NL


-----------------------------------------------------------------------------
(* C21: a source file that cannot be read or parsed is fatal only to that  *)
(* file.                                                                   *)

\* parse_file reports "Error parsing" for the file.
FailingFile(file) ==
    \/ ~file.readable
    \/ ~file.well_formed
    \/ \E i \in 1..Len(file.root.children) :
           /\ file.root.children[i].tag = "meta_info"
           /\ \A j \in 1..(i - 1) : file.root.children[j].tag # "meta_info"
           /\ \A c \in 1..Len(file.root.children[i].children) :
                  file.root.children[i].children[c].tag # "title"

\* The entries of the <ar> elements of the first <lexicon> of the document.
EntriesWrittenIn(file) ==
    LET lexicons == SelectSeq(file.root.children, LAMBDA c : c.tag = "lexicon")
    IN  IF lexicons = <<>> THEN <<>>
        ELSE LET ars == SelectSeq(lexicons[1].children, LAMBDA c : c.tag = "ar")
             IN  SelectSeq([i \in 1..Len(ars) |-> parse_entry(ars[i])],
                           LAMBDA e : e # None)

RECURSIVE EntriesOfFiles(_)
EntriesOfFiles(files) ==
    IF files = <<>> THEN <<>>
    ELSE (IF files[1].path = DtdPath \/ FailingFile(files[1])
          THEN <<>>
          ELSE EntriesWrittenIn(files[1]))
         \o EntriesOfFiles(Tail(files))

\* C21: after every file read, the entries collected are those of the files
\* read so far that could be read and parsed, a failing file having added
\* none and having been reported; the loop goes on to the last file; and the
\* run exits with status 1 and no output exactly when no entries result.
C21_FailureIsFatalToFileOnly ==
    /\ entries = EntriesOfFiles(SubSeq(input_file, 1, file_number))
    /\ (/\ op = "parse_file"
        /\ input_file[file_number].path # DtdPath
        /\ FailingFile(input_file[file_number])) => res = Message("Error parsing")
    /\ file_number < Len(input_file) => op \in {"none", "parse_file"} /\ raised = "none"
    /\ op = "exit" => entries = <<>> /\ raised = "SystemExit(1)" /\ output_file = <<>>
    /\ op = "export" => entries # <<>> /\ raised = "none" /\ output_file = STV_export(entries)

\* A file that is not well-formed, with an <ar> written in it, is followed
\* by a file whose entries are exported.
C21_Witness ==
    /\ op = "export"
    /\ \E i \in 1..(Len(input_file) - 1) :
           /\ ~input_file[i].well_formed
           /\ EntriesWrittenIn(input_file[i]) # <<>>
           /\ input_file[i + 1].path # DtdPath
           /\ ~FailingFile(input_file[i + 1])
           /\ EntriesWrittenIn(input_file[i + 1]) # <<>>
    /\ entries # <<>>


-----------------------------------------------------------------------------
(* C22: the entries a call returns are those of the input of that call.    *)

\* C22: what the last call of parse_files returned is what a new parser
\* returns for the files of that call, and what the last call of parse
\* returned is what a new parser returns for the file.
C22_CallReturnsEntriesOfItsInput ==
    /\ op = "parse_files" => res[Len(res)] = parse_files(<<>>, input_file)
    /\ (op = "parse" /\ raised = "none") =>
           \E eof \in UnclosedTagAtEOF :
               res[Len(res)] = parse(<<>>, input_file, eof).entries

====
